---- MODULE Spec2Model ----
(***************************************************************************)
(* Model of the request gates of MoveCRM: the rate limiter                 *)
(* (src/crmai/rate_limiting.py), the authentication decorators             *)
(* (src/crmai/auth.py) and the decorator stacks of the routes              *)
(* (src/crmai/app_secure.py).                                              *)
(*                                                                         *)
(* A request is handled by one worker.  A worker's step is one access to   *)
(* a shared store (one Redis command or MULTI/EXEC block, one SQL          *)
(* statement or commit) together with the local code around it.  The      *)
(* clock counts ticks; a minute is TicksPerMinute ticks.                   *)
(***************************************************************************)
EXTENDS Integers, Sequences, FiniteSets, Bags, TLC

\* ------------------------------------------------------------------ bounds
NumProcs == 2
MaxTime == 2
TicksPerMinute == 2
CallLimit == 3
PriorGap == 1
MaxTokens == 1
ClockSlack == 1

\* expire_at of a key that has no expiry (TTL -1)
NoExpiry == -1

Procs == 1..NumProcs

\* ------------------------------------------------------------------ inputs
ClientIPs == {"10.0.0.1"}
Roles == {"admin", "staff", "customer"}

\* A session token as jwt.decode sees it: the claims of the payload (""
\* for a claim the payload lacks), iat and exp in ticks (NoExp for a
\* payload without exp), and whether the signature verifies against
\* JWT_SECRET_KEY.  kind "empty" is the empty string, kind "garbage" a
\* string that is no JWT.
TokenTTL == 24 * 60 * TicksPerMinute
NoExp == -1
Jwt(u, t, r, iat, exp, sig) ==
    [kind |-> "jwt", user_id |-> u, tenant_id |-> t, role |-> r,
     iat |-> iat, exp |-> exp, sig |-> sig]
EmptyToken == [kind |-> "empty", user_id |-> "", tenant_id |-> "", role |-> "",
               iat |-> 0, exp |-> 0, sig |-> ""]
GarbageToken == [kind |-> "garbage", user_id |-> "", tenant_id |-> "", role |-> "",
                 iat |-> 0, exp |-> 0, sig |-> ""]
StaffToken == Jwt("u1", "t1", "staff", 0, TokenTTL, "good")
CustomerToken == Jwt("u2", "t1", "customer", 0, TokenTTL, "good")
AdminToken == Jwt("u3", "t1", "admin", 0, TokenTTL, "good")
ExpiredToken == Jwt("u1", "t1", "staff", 0, 0, "good")
ForgedToken == Jwt("u1", "t1", "admin", 0, TokenTTL, "bad")
\* Signed with JWT_SECRET_KEY by another hand than generate_jwt_token:
\* a payload without user_id, without role, without exp.
NoUserIdToken == Jwt("", "t1", "staff", 0, TokenTTL, "good")
NoRoleToken == Jwt("u1", "t1", "", 0, TokenTTL, "good")
NoExpToken == Jwt("u1", "t1", "staff", 0, NoExp, "good")

\* The Authorization header by what auth_header.split(' ') yields: the
\* first word, the number of words and the second word.  words = 0 is an
\* absent header.
Header(scheme, words, token) == [scheme |-> scheme, words |-> words, token |-> token]
NoHeader == Header("", 0, EmptyToken)
Bearer(token) == Header("Bearer", 2, token)
AuthHeaders(route) ==
    CASE route = "staff_only" ->
            { NoHeader, Bearer(StaffToken), Bearer(CustomerToken), Bearer(AdminToken),
              Bearer(NoRoleToken) }
      [] route = "role_only" ->
            { NoHeader, Bearer(StaffToken), Bearer(AdminToken) }
      [] route = "logout" ->
            { NoHeader, Header("Bearer", 1, EmptyToken), Bearer(EmptyToken),
              Header("Basic", 2, StaffToken), Header("Bearer", 3, StaffToken),
              Bearer(StaffToken), Bearer(ExpiredToken), Bearer(ForgedToken),
              Bearer(GarbageToken), Bearer(NoUserIdToken), Bearer(NoExpToken) }
      [] OTHER ->
            { NoHeader, Header("Bearer", 1, EmptyToken), Bearer(StaffToken),
              Bearer(ExpiredToken), Bearer(ForgedToken) }

\* X-Tenant-Slug, X-Forwarded-For (its first entry) and X-Real-IP; "" when absent.
TenantSlugs == {""}
ForwardedFor == {""}
RealIPs == {""}

\* ------------------------------------------------------------------ state
VARIABLES
    now,          \* the clock, in ticks
    redis,        \* fast store: key -> [count, expire_at]
    rate_limits,  \* durable table rate_limits: bag of <<identifier, endpoint, created_at>>
    redisUp,      \* the fast store answers
    dbUp,         \* the durable store answers
    pc,           \* per worker: position in the request
    request,      \* per worker: the request (route, headers, current_user)
    gi,           \* per worker: index of the decorator being run
    frame,        \* per worker: locals of check_rate_limit
    response,     \* per worker: the response of the finished request
    trail,        \* per worker, history: what the request went through, in order
    calls,        \* history: per fast-store key, the check_rate_limit calls made on it
    denied_at,    \* history: per (identifier, endpoint) whose latest call was denied, when
    secret,       \* JWT_SECRET_KEY is set in the environment of the process
    app,          \* the process: "boot", "serving" or "exited"
    issuing,      \* generate_jwt_token between its two readings of the clock
    issued,       \* history: the tokens generate_jwt_token returned, and for whom
    verdict,      \* what the latest decode_jwt_token call came to
    log,          \* history: per token, its first success and whether it failed as expired
    failures,     \* history: the errors decode_jwt_token raised, by their cause
    users,        \* table users: id -> the row
    reply,        \* what the latest call on the credentials came to
    first401,     \* history: the body of the first 401 answered
    firstRefusal, \* history: the first answer to a login whose password cannot match
    admitted,     \* history: the calls check_rate_limit admitted, by pair and time
    quotes,       \* table quotes: id -> the row
    qcall,        \* per worker: the update_quote_status call it is in
    creating,     \* per worker: the create_user call it is in
    unique_email, \* table users has a unique index on (tenant_id, email)
    origin        \* per worker, history: the stores as its request found them

authvars == <<secret, app, issuing, issued, verdict, log, failures>>
credvars == <<users, reply, first401, firstRefusal>>
latevars == <<admitted, quotes, qcall, creating, unique_email, origin>>

vars == <<now, redis, rate_limits, redisUp, dbUp, pc, request, gi,
          frame, response, trail, calls, denied_at, secret, app, issuing,
          issued, verdict, log, failures, users, reply, first401, firstRefusal,
          admitted, quotes, qcall, creating, unique_email, origin>>

\* ------------------------------------------------------------------ policy
RATE_LIMITS ==
    [ default       |-> [limit |-> 100, window |-> 1],
      auth_login    |-> [limit |-> 5,   window |-> 5],
      auth_register |-> [limit |-> 3,   window |-> 60],
      quote_create  |-> [limit |-> 10,  window |-> 1],
      quote_list    |-> [limit |-> 50,  window |-> 1],
      file_upload   |-> [limit |-> 20,  window |-> 5],
      ai_detection  |-> [limit |-> 5,   window |-> 1],
      public_quote  |-> [limit |-> 20,  window |-> 5] ]

get_rate_limit_config(endpoint) ==
    IF endpoint \in DOMAIN RATE_LIMITS THEN RATE_LIMITS[endpoint]
    ELSE RATE_LIMITS["default"]

\* The decorators of a route, outermost first (the order they run in).
RequireAuth == [kind |-> "require_auth", role |-> "", endpoint |-> "",
                per_tenant |-> FALSE, per_ip |-> FALSE]
RequireRole(r) == [kind |-> "require_role", role |-> r, endpoint |-> "",
                   per_tenant |-> FALSE, per_ip |-> FALSE]
ApplyRateLimit(endpoint, per_tenant, per_ip) ==
    [kind |-> "apply_rate_limit", role |-> "", endpoint |-> endpoint,
     per_tenant |-> per_tenant, per_ip |-> per_ip]

\* The rate limiter as the outer decorator.
create_quote_stack_RateLimitFirst ==
    <<ApplyRateLimit("quote_create", TRUE, TRUE), RequireAuth>>

create_quote_stack == <<RequireAuth, ApplyRateLimit("quote_create", TRUE, TRUE)>>
staff_only_stack == <<RequireAuth, RequireRole("staff")>>
role_only_stack == <<RequireRole("staff")>>
logout_stack == <<RequireAuth>>
register_stack == <<ApplyRateLimit("auth_register", TRUE, TRUE)>>

Routes == {"create_quote", "staff_only", "role_only", "logout"}
Stack(route) ==
    CASE route = "create_quote" -> create_quote_stack
      [] route = "staff_only" -> staff_only_stack
      [] route = "role_only" -> role_only_stack
      [] route = "logout" -> logout_stack
      [] route = "register" -> register_stack

\* ------------------------------------------------------------------ clock
\* window_minutes * 60 seconds, in ticks
WindowTicks(window_minutes) == window_minutes * TicksPerMinute

\* The key leaves the identifier out.
_get_rate_limit_key_NoIdentifier(identifier, endpoint, window_minutes) ==
    <<"", endpoint, now \div WindowTicks(window_minutes)>>

\* f"rate_limit:{identifier}:{endpoint}:{window_start}"
_get_rate_limit_key(identifier, endpoint, window_minutes) ==
    <<identifier, endpoint, now \div WindowTicks(window_minutes)>>

\* ------------------------------------------------------------------ stores
\* redis_client.get(key), as int(current_count) if current_count else 0
RedisCount(store, key) == IF key \in DOMAIN store THEN store[key].count ELSE 0

\* INCR key: a missing key counts from 0; the expiry is left as it is.
RedisIncr(store, key) ==
    [k \in DOMAIN store \cup {key} |->
        IF k = key
        THEN [count |-> RedisCount(store, key) + 1,
              expire_at |-> IF key \in DOMAIN store THEN store[key].expire_at ELSE NoExpiry]
        ELSE store[k]]

\* EXPIRE key seconds: no effect on a missing key.
RedisExpire(store, key, ttl) ==
    [k \in DOMAIN store |->
        IF k = key THEN [store[k] EXCEPT !.expire_at = now + ttl] ELSE store[k]]

\* pipe.incr(key); pipe.expire(key, window_minutes * 60); pipe.execute():
\* redis-py's pipeline() is transactional (MULTI ... EXEC), so the server
\* applies both commands or neither.
PipelineExecute(store, key, window_minutes) ==
    RedisExpire(RedisIncr(store, key), key, WindowTicks(window_minutes))

\* A pipeline that is no transaction: the store is lost after INCR.
PipelineFailed_NoTransaction(store, key, window_minutes, up) ==
    IF up THEN RedisIncr(store, key) ELSE store

\* What an execute() that raised RedisError leaves on the server: nothing
\* when the store was already unreachable, the whole block when the store
\* was lost after EXEC and only the reply is missing.
PipelineFailed(store, key, window_minutes, up) ==
    IF up THEN PipelineExecute(store, key, window_minutes) ELSE store

\* Keys past their expiry are gone from the store.
RedisLive(store, t) ==
    [k \in {k \in DOMAIN store :
              store[k].expire_at = NoExpiry \/ store[k].expire_at > t} |-> store[k]]

\* The count with created_at >= window_start.
CountRows_Inclusive(rows, identifier, endpoint, window_start) ==
    LET hit == {r \in DOMAIN rows :
                  r[1] = identifier /\ r[2] = endpoint /\ r[3] >= window_start}
    IN BagCardinality([r \in hit |-> rows[r]])

\* The count without the created_at condition.
CountRows_AllTime(rows, identifier, endpoint, window_start) ==
    LET hit == {r \in DOMAIN rows : r[1] = identifier /\ r[2] = endpoint}
    IN BagCardinality([r \in hit |-> rows[r]])

\* SELECT COUNT(*) FROM rate_limits
\*  WHERE identifier = %s AND endpoint = %s AND created_at > %s
CountRows(rows, identifier, endpoint, window_start) ==
    LET hit == {r \in DOMAIN rows :
                  r[1] = identifier /\ r[2] = endpoint /\ r[3] > window_start}
    IN BagCardinality([r \in hit |-> rows[r]])

\* INSERT INTO rate_limits (identifier, endpoint, created_at) VALUES (...)
InsertRow(rows, identifier, endpoint, created_at) ==
    rows (+) SetToBag({<<identifier, endpoint, created_at>>})

\* ------------------------------------------------------------------ check_rate_limit
\* The limit test off by one.
LimitReached_OffByOne(current_count, limit) == current_count > limit

\* if current_count >= limit
LimitReached(current_count, limit) == current_count >= limit

\* remaining = limit - (current_count + 1)
Remaining(limit, current_count) == limit - (current_count + 1)

\* The rate_limit_info dictionary; reset_time is int(time.time() + window_minutes * 60).
Info(limit, remaining, window_minutes) ==
    [limit |-> limit, remaining |-> remaining,
     reset_time |-> now + WindowTicks(window_minutes),
     window_minutes |-> window_minutes]
NoInfo == [limit |-> 0, remaining |-> 0, reset_time |-> 0, window_minutes |-> 0]

\* The locals of one check_rate_limit call, with the stores as the call found them.
NoFrame ==
    [axis |-> "", identifier |-> "", endpoint |-> "", limit |-> 0, window |-> 0,
     key |-> <<"", "", 0>>, current_count |-> 0, path |-> "", allowed |-> FALSE,
     info |-> NoInfo, nth |-> 0, prev_denied |-> FALSE, prev_at |-> 0,
     started |-> 0, counted_at |-> 0, redis_before |-> <<>>, rows_before |-> <<>>]

Pair(f) == <<f.identifier, f.endpoint>>

\* ------------------------------------------------------------------ requests
NoUser == [user_id |-> "", tenant_id |-> "", role |-> ""]
NoResponse ==
    [status |-> 0, error |-> "", limit |-> 0, remaining |-> 0, reset |-> 0,
     retry_after |-> 0]
NoRequest ==
    [route |-> "", remote_addr |-> "", forwarded_for |-> "", real_ip |-> "",
     authorization |-> NoHeader, tenant_slug |-> "",
     has_current_user |-> FALSE, current_user |-> NoUser]

Requests ==
    UNION { { [NoRequest EXCEPT !.route = r, !.remote_addr = a, !.forwarded_for = x,
                                !.real_ip = i, !.authorization = h, !.tenant_slug = s] :
                a \in ClientIPs, x \in ForwardedFor, i \in RealIPs,
                h \in AuthHeaders(r), s \in TenantSlugs } : r \in Routes }

Event(ev, axis, endpoint, limit, window, ok) ==
    [ev |-> ev, axis |-> axis, endpoint |-> endpoint, limit |-> limit,
     window |-> window, ok |-> ok]

\* RateLimiter._get_client_ip
_get_client_ip(req) ==
    IF req.forwarded_for # "" THEN req.forwarded_for
    ELSE IF req.real_ip # "" THEN req.real_ip
    ELSE IF req.remote_addr # "" THEN req.remote_addr
    ELSE "127.0.0.1"

\* What decode_jwt_token returns or raises.
NoPayload == [user_id |-> "", tenant_id |-> "", role |-> "", iat |-> 0, exp |-> 0]
Payload(token) ==
    [user_id |-> token.user_id, tenant_id |-> token.tenant_id, role |-> token.role,
     iat |-> token.iat, exp |-> token.exp]
Raised(kind, error) == [ok |-> FALSE, kind |-> kind, error |-> error, payload |-> NoPayload]
Decoded(payload) == [ok |-> TRUE, kind |-> "", error |-> "", payload |-> payload]

\* A token is still taken at the tick of its exp.
decode_jwt_token_LateExpiry(token) ==
    IF ~secret
    THEN Raised("ValueError", "JWT_SECRET_KEY environment variable not set")
    ELSE IF token.kind # "jwt" \/ token.sig # "good"
    THEN Raised("AuthenticationError", "Invalid token")
    ELSE IF token.exp # NoExp /\ token.exp < now
    THEN Raised("AuthenticationError", "Token has expired")
    ELSE Decoded(Payload(token))

\* InvalidTokenError caught before its subclass ExpiredSignatureError.
decode_jwt_token_OneMessage(token) ==
    IF ~secret
    THEN Raised("ValueError", "JWT_SECRET_KEY environment variable not set")
    ELSE IF token.kind # "jwt" \/ token.sig # "good"
    THEN Raised("AuthenticationError", "Invalid token")
    ELSE IF token.exp # NoExp /\ token.exp <= now
    THEN Raised("AuthenticationError", "Invalid token")
    ELSE Decoded(Payload(token))

\* jwt.decode told not to verify exp.
decode_jwt_token_NoExpiry(token) ==
    IF ~secret
    THEN Raised("ValueError", "JWT_SECRET_KEY environment variable not set")
    ELSE IF token.kind # "jwt" \/ token.sig # "good"
    THEN Raised("AuthenticationError", "Invalid token")
    ELSE Decoded(Payload(token))

\* decode_jwt_token: the secret is read from the environment; jwt.decode
\* parses the token and verifies the signature, then exp if the payload has
\* one (no claim is required); ExpiredSignatureError and the other
\* InvalidTokenErrors are raised again as AuthenticationError.
decode_jwt_token(token) ==
    IF ~secret
    THEN Raised("ValueError", "JWT_SECRET_KEY environment variable not set")
    ELSE IF token.kind # "jwt" \/ token.sig # "good"
    THEN Raised("AuthenticationError", "Invalid token")
    ELSE IF token.exp # NoExp /\ token.exp <= now
    THEN Raised("AuthenticationError", "Token has expired")
    ELSE Decoded(Payload(token))

\* The user of the token is looked up, and refused when deactivated.
require_auth_Revoking(req) ==
    LET h == req.authorization IN
    IF h.words = 1
    THEN [status |-> 401, error |-> "Invalid authorization header format"]
    ELSE IF h.words = 0 \/ h.token.kind = "empty"
    THEN [status |-> 401, error |-> "Authentication token required"]
    ELSE IF decode_jwt_token(h.token).kind = "AuthenticationError"
    THEN [status |-> 401, error |-> decode_jwt_token(h.token).error]
    ELSE IF ~decode_jwt_token(h.token).ok
    THEN [status |-> 500, error |-> "Internal server error"]
    ELSE IF h.token.user_id \in DOMAIN users /\ ~users[h.token.user_id].is_active
    THEN [status |-> 401, error |-> "Account is disabled"]
    ELSE [status |-> 0, error |-> ""]

\* require_auth.decorated_function, up to the call of f
require_auth(req) ==
    LET h == req.authorization IN
    IF h.words = 1
    THEN [status |-> 401, error |-> "Invalid authorization header format"]
    ELSE IF h.words = 0 \/ h.token.kind = "empty"
    THEN [status |-> 401, error |-> "Authentication token required"]
    ELSE IF decode_jwt_token(h.token).kind = "AuthenticationError"
    THEN [status |-> 401, error |-> decode_jwt_token(h.token).error]
    ELSE IF ~decode_jwt_token(h.token).ok
    THEN [status |-> 500, error |-> "Internal server error"]
    ELSE [status |-> 0, error |-> ""]

\* require_role without the exception for admin.
require_role_NoAdmin(req, required_role) ==
    IF ~req.has_current_user
    THEN [status |-> 401, error |-> "Authentication required"]
    ELSE IF req.current_user.role # required_role
    THEN [status |-> 403, error |-> "Insufficient privileges"]
    ELSE [status |-> 0, error |-> ""]

\* require_role(required_role).decorated_function, up to the call of f
require_role(req, required_role) ==
    IF ~req.has_current_user
    THEN [status |-> 401, error |-> "Authentication required"]
    ELSE IF req.current_user.role # required_role /\ req.current_user.role # "admin"
    THEN [status |-> 403, error |-> "Insufficient privileges"]
    ELSE [status |-> 0, error |-> ""]

\* The slug header wins over the token.
TenantIdOf_SlugFirst(req) ==
    IF req.tenant_slug # "" THEN "slug:" \o req.tenant_slug
    ELSE IF req.has_current_user THEN req.current_user.tenant_id
    ELSE ""

\* apply_rate_limit: the tenant a request is counted under ("" for none)
TenantIdOf(req) ==
    IF req.has_current_user /\ req.current_user.tenant_id # ""
    THEN req.current_user.tenant_id
    ELSE IF req.tenant_slug # "" THEN "slug:" \o req.tenant_slug
    ELSE ""

\* The tenant checked against the limit of an IP.
TenantLimit_Same(limit) == limit

\* limit * 10  # Higher limit for tenants
TenantLimit(limit) == limit * 10

\* The response is built and the request goes on all the same.
Rejects_Never(allowed) == FALSE

\* if not allowed: ... return response
Rejects(allowed) == ~allowed

Gate(p) == Stack(request[p].route)[gi[p]]
AtGate(p, kind) ==
    /\ pc[p] = "gate"
    /\ gi[p] <= Len(Stack(request[p].route))
    /\ Gate(p).kind = kind

\* ------------------------------------------------------------------ token service
\* generate_jwt_token has not yet read the clock.
NoIssue == [active |-> FALSE, user_id |-> "", tenant_id |-> "", role |-> "", clock |-> 0]

\* No decode_jwt_token call was made yet.
NoVerdict ==
    [made |-> FALSE, token |-> EmptyToken, at |-> 0, result |-> Raised("", ""),
     ok_at |-> -1, expired_before |-> FALSE]

\* ------------------------------------------------------------------ credentials
\* Table tenants: no function of the service writes it.
tenants ==
    { [id |-> "t1", slug |-> "acme", is_active |-> TRUE],
      [id |-> "t2", slug |-> "beta", is_active |-> TRUE],
      [id |-> "t3", slug |-> "old", is_active |-> FALSE] }
TenantIds == { t.id : t \in tenants }

\* SELECT id FROM tenants WHERE slug = %s AND is_active = true: the ids found
ActiveTenant(slug) == { t.id : t \in { t \in tenants : t.slug = slug /\ t.is_active } }

\* What callers send.  "nope" is no address, "weak" has no digit and no
\* upper case letter; "" is a field left out.
Emails == {"a@x.io", "nope"}
Passwords == {"Passw0rd", "Secret99", "weak"}
Slugs == {"acme", "beta", "old", "ghost", ""}

\* validate_email: the pattern local@domain.tld
validate_email(email) == email \in {"a@x.io", "b@x.io"}

\* validate_password: 8 characters or more, an upper case letter, a lower
\* case letter and a digit
validate_password(password) == password \in {"Passw0rd", "Secret99", "Tmp0rary"}

\* hash_password: a bcrypt hash of the password
hash_password(password) == [scheme |-> "bcrypt", of |-> password]

\* A stored value that is no bcrypt hash (a password kept in clear by an import).
LegacyHash == [scheme |-> "plain", of |-> "Passw0rd"]

\* secrets.token_urlsafe(12): the temporary password of UserManager.create_user
temp_password == "Tmp0rary"

\* verify_password: bcrypt.checkpw, which raises ValueError("Invalid salt")
\* on a stored value that is no bcrypt hash
verify_password(password, hashed) ==
    [raised |-> hashed.scheme # "bcrypt",
     value |-> hashed.scheme = "bcrypt" /\ hashed.of = password]

\* A row of users.  last_login is -1 for NULL; created_in is history, the
\* tenant_id of the INSERT.
Row(tenant_id, email, password_hash, role) ==
    [tenant_id |-> tenant_id, email |-> email, password_hash |-> password_hash,
     role |-> role, is_active |-> TRUE, last_login |-> -1, created_in |-> tenant_id]

\* RETURNING id of an INSERT: the next id of the table
NewId(table) == "u" \o ToString(Cardinality(DOMAIN table) + 1)

\* INSERT INTO users
Insert(table, row) ==
    [u \in DOMAIN table \cup {NewId(table)} |-> IF u \in DOMAIN table THEN table[u] ELSE row]

\* SELECT ... FROM users WHERE email = %s AND tenant_id = %s: the ids found
UsersByEmail(email, tenant_id) ==
    { u \in DOMAIN users : users[u].email = email /\ users[u].tenant_id = tenant_id }

\* ... WHERE id = %s: the tenant is not asked for.
UsersById_AnyTenant(user_id, tenant_id) ==
    { u \in DOMAIN users : u = user_id }

\* ... WHERE id = %s AND tenant_id = %s: the ids found
UsersById(user_id, tenant_id) ==
    { u \in DOMAIN users : u = user_id /\ users[u].tenant_id = tenant_id }

\* What a call came to: the exception raised ("" for none), its message,
\* the user it returned or wrote.
Outcome(kind, message, user_id) == [kind |-> kind, message |-> message, user_id |-> user_id]
Fails(kind, message) == Outcome(kind, message, "")
Done(user_id) == Outcome("", "", user_id)

\* The user is looked up by email alone.
authenticate_user_AnyTenant(email, password, tenant_slug) ==
    LET tenant == ActiveTenant(tenant_slug)
        found == { u \in DOMAIN users : users[u].email = email }
        u == CHOOSE u \in found : TRUE
    IN
    IF ~validate_email(email)
    THEN Fails("AuthenticationError", "Invalid email format")
    ELSE IF email = "" \/ password = "" \/ tenant_slug = ""
    THEN Fails("AuthenticationError", "Email, password, and tenant are required")
    ELSE IF ~dbUp
    THEN Fails("psycopg2.Error", "connection failed")
    ELSE IF tenant = {}
    THEN Fails("AuthenticationError", "Invalid tenant")
    ELSE IF found = {}
    THEN Fails("AuthenticationError", "Invalid credentials")
    ELSE IF ~users[u].is_active
    THEN Fails("AuthenticationError", "Account is disabled")
    ELSE IF verify_password(password, users[u].password_hash).raised
    THEN Fails("ValueError", "Invalid salt")
    ELSE IF ~verify_password(password, users[u].password_hash).value
    THEN Fails("AuthenticationError", "Invalid credentials")
    ELSE Done(u)

\* authenticate_user: the checks in the order of the code, up to the
\* UPDATE of last_login.
authenticate_user(email, password, tenant_slug) ==
    LET tenant == ActiveTenant(tenant_slug)
        found == UNION { UsersByEmail(email, t) : t \in tenant }
        u == CHOOSE u \in found : TRUE
    IN
    IF ~validate_email(email)
    THEN Fails("AuthenticationError", "Invalid email format")
    ELSE IF email = "" \/ password = "" \/ tenant_slug = ""
    THEN Fails("AuthenticationError", "Email, password, and tenant are required")
    ELSE IF ~dbUp
    THEN Fails("psycopg2.Error", "connection failed")
    ELSE IF tenant = {}
    THEN Fails("AuthenticationError", "Invalid tenant")
    ELSE IF found = {}
    THEN Fails("AuthenticationError", "Invalid credentials")
    ELSE IF ~users[u].is_active
    THEN Fails("AuthenticationError", "Account is disabled")
    ELSE IF verify_password(password, users[u].password_hash).raised
    THEN Fails("ValueError", "Invalid salt")
    ELSE IF ~verify_password(password, users[u].password_hash).value
    THEN Fails("AuthenticationError", "Invalid credentials")
    ELSE Done(u)

\* The latest call on the credentials: the function or route, what it was
\* given, the exception it ended with and the status answered (0 for a
\* function called directly).  case is history: how the store stood to
\* what was given.
NoReply ==
    [op |-> "", status |-> 0, kind |-> "", message |-> "", email |-> "",
     password |-> "", tenant |-> "", user_id |-> "", required |-> "",
     token |-> EmptyToken, named |-> {}, case |-> ""]

\* ------------------------------------------------------------------ later state
\* History of admissions: not kept, or per <<identifier, endpoint, time>>
\* the number of calls entered at that time that were admitted.
NoAdmitted == [on |-> FALSE, at |-> <<>>]

\* History of a request: not kept, or the fast store and the table
\* rate_limits at its arrival.
NoOrigin == [on |-> FALSE, redis |-> <<>>, rate_limits |-> <<>>]

\* No update_quote_status call, no create_user call.
NoQCall == [pc |-> "idle", quote_id |-> "", new_status |-> "", current_status |-> "",
            error |-> ""]
NoCreate == [pc |-> "idle", email |-> "", tenant_id |-> "", error |-> "", user_id |-> ""]

\* ------------------------------------------------------------------ initial state
Idle ==
    /\ now = 0
    /\ redisUp = TRUE
    /\ dbUp = TRUE
    /\ pc = [p \in Procs |-> "idle"]
    /\ request = [p \in Procs |-> NoRequest]
    /\ gi = [p \in Procs |-> 1]
    /\ frame = [p \in Procs |-> NoFrame]
    /\ response = [p \in Procs |-> NoResponse]
    /\ trail = [p \in Procs |-> <<>>]
    /\ denied_at = <<>>
    /\ secret = TRUE
    /\ app = "serving"
    /\ issuing = NoIssue
    /\ issued = {}
    /\ verdict = NoVerdict
    /\ log = <<>>
    /\ failures = {}
    /\ users = <<>>
    /\ reply = NoReply
    /\ first401 = ""
    /\ firstRefusal = ""
    /\ quotes = <<>>
    /\ qcall = [p \in Procs |-> NoQCall]
    /\ creating = [p \in Procs |-> NoCreate]
    /\ unique_email = FALSE
    /\ origin = [p \in Procs |-> NoOrigin]

\* Empty stores.
Init ==
    /\ Idle
    /\ admitted = NoAdmitted
    /\ redis = <<>>
    /\ rate_limits = <<>>
    /\ calls = <<>>

\* The stores outlive the process: a worker can start on the counters and
\* rows that earlier traffic of the same client and tenant left in the
\* current window, here with the client or the tenant close to its limit.
PriorLoads ==
    LET L == RATE_LIMITS["quote_create"].limit IN
    { [ip |-> L - PriorGap, tenant |-> L - PriorGap],
      [ip |-> L - PriorGap - 1, tenant |-> TenantLimit(L) - PriorGap] }

PriorCount(load, identifier) ==
    IF identifier = "tenant:t1" THEN load.tenant ELSE load.ip
\* A counter key (identifier, endpoint, bucket 0), or a row created at 0.
PriorKeys(load) ==
    { <<id, "quote_create", 0>> :
        id \in {i \in {"ip:10.0.0.1", "tenant:t1"} : PriorCount(load, i) > 0} }
PriorRedis(load) ==
    [k \in PriorKeys(load) |->
        [count |-> PriorCount(load, k[1]),
         expire_at |-> WindowTicks(RATE_LIMITS["quote_create"].window)]]
PriorRows(load) ==
    [k \in PriorKeys(load) |-> PriorCount(load, k[1])]

InitGates ==
    /\ Idle
    /\ admitted = NoAdmitted
    /\ \E load \in PriorLoads :
        /\ redis = PriorRedis(load)
        /\ rate_limits = PriorRows(load)
        /\ calls = [k \in PriorKeys(load) |->
                       [n |-> PriorCount(load, k[1]), clean |-> TRUE,
                        bucket_end |-> WindowTicks(RATE_LIMITS["quote_create"].window)]]

\* ------------------------------------------------------------------ history
Min(a, b) == IF a < b THEN a ELSE b

\* One more call on a fast-store key: its ordinal, up to limit + 1, as long
\* as every call on the key ran to its end without a store error.
NoteCall(key, limit, bucket_end) ==
    [k \in DOMAIN calls \cup {key} |->
        IF k # key THEN calls[k]
        ELSE IF key \notin DOMAIN calls THEN [n |-> 1, clean |-> TRUE, bucket_end |-> bucket_end]
        ELSE IF calls[key].clean
             THEN [calls[key] EXCEPT !.n = Min(calls[key].n + 1, limit + 1)]
             ELSE calls[key]]

\* A call on the key met a store error or was cut short.
NoteError(key) ==
    [k \in DOMAIN calls |->
        IF k = key THEN [calls[k] EXCEPT !.n = 0, !.clean = FALSE] ELSE calls[k]]

\* One more admitted call of the pair, entered at f.started, and whether
\* it is counted in the bucket it began in.
NoteAdmitted(f) ==
    LET e == <<f.identifier, f.endpoint, f.started,
               now \div WindowTicks(f.window) = f.started \div WindowTicks(f.window)>> IN
    IF ~admitted.on THEN admitted
    ELSE [admitted EXCEPT !.at = [k \in DOMAIN admitted.at \cup {e} |->
                                    IF k # e THEN admitted.at[k]
                                    ELSE IF e \in DOMAIN admitted.at
                                         THEN admitted.at[e] + 1 ELSE 1]]

Forget(pair) == [q \in DOMAIN denied_at \ {pair} |-> denied_at[q]]
NoteDenied(pair) ==
    [q \in DOMAIN denied_at \cup {pair} |-> IF q = pair THEN now ELSE denied_at[q]]

\* ------------------------------------------------------------------ check_rate_limit, step by step
\* check_rate_limit is entered: the key is computed from the clock.
BeginCheck(p, axis, identifier, endpoint, limit, window_minutes) ==
    LET key == _get_rate_limit_key(identifier, endpoint, window_minutes)
        pair == <<identifier, endpoint>>
    IN
    /\ calls' = NoteCall(key, limit, (key[3] + 1) * WindowTicks(window_minutes))
    /\ denied_at' = Forget(pair)
    /\ frame' = [frame EXCEPT ![p] =
           [NoFrame EXCEPT !.axis = axis, !.identifier = identifier,
                           !.endpoint = endpoint, !.limit = limit,
                           !.window = window_minutes, !.key = key,
                           !.nth = calls'[key].n,
                           !.prev_denied = pair \in DOMAIN denied_at,
                           !.prev_at = IF pair \in DOMAIN denied_at
                                       THEN denied_at[pair] ELSE 0,
                           !.started = now,
                           !.redis_before = redis, !.rows_before = rate_limits]]
    /\ pc' = [pc EXCEPT ![p] = "redis_get"]

\* check_rate_limit returns (allowed, info).
Return(p, allowed, remaining, path) ==
    /\ frame' = [frame EXCEPT ![p].allowed = allowed,
                              ![p].info = Info(frame[p].limit, remaining, frame[p].window),
                              ![p].path = path]
    /\ pc' = [pc EXCEPT ![p] = "checked"]
    /\ denied_at' = IF allowed THEN denied_at ELSE NoteDenied(Pair(frame[p]))

\* current_count = self.redis_client.get(key), and the limit test
RedisGet(p) ==
    /\ pc[p] = "redis_get"
    /\ redisUp
    /\ LET f == frame[p]
           current_count == RedisCount(redis, f.key)
       IN IF LimitReached(current_count, f.limit)
          THEN Return(p, FALSE, 0, "redis")
          ELSE /\ frame' = [frame EXCEPT ![p].current_count = current_count]
               /\ pc' = [pc EXCEPT ![p] = "redis_exec"]
               /\ UNCHANGED denied_at
    /\ UNCHANGED <<now, redis, rate_limits, redisUp, dbUp, request, gi,
                   response, trail, calls>>
    /\ UNCHANGED <<authvars, credvars, latevars>>

\* redis_client.get raises RedisError: fall back to the database
RedisGetError(p) ==
    /\ pc[p] = "redis_get"
    /\ ~redisUp
    /\ calls' = NoteError(frame[p].key)
    /\ pc' = [pc EXCEPT ![p] = "db_count"]
    /\ UNCHANGED <<now, redis, rate_limits, redisUp, dbUp, request, gi, frame,
                   response, trail, denied_at>>
    /\ UNCHANGED <<authvars, credvars, latevars>>

\* pipe.incr(key); pipe.expire(key, window_minutes * 60); pipe.execute()
RedisExec(p) ==
    /\ pc[p] = "redis_exec"
    /\ redisUp
    /\ LET f == frame[p] IN
        /\ redis' = PipelineExecute(redis, f.key, f.window)
        /\ Return(p, TRUE, Remaining(f.limit, f.current_count), "redis")
        /\ admitted' = NoteAdmitted(f)
    /\ UNCHANGED <<now, rate_limits, redisUp, dbUp, request, gi, response,
                   trail, calls>>
    /\ UNCHANGED <<authvars, credvars, quotes, qcall, creating, unique_email, origin>>

\* pipe.execute() raises RedisError: fall back to the database.  The store
\* is unreachable, or it is lost between EXEC and the reply.
RedisExecError(p) ==
    /\ pc[p] = "redis_exec"
    /\ redis' = PipelineFailed(redis, frame[p].key, frame[p].window, redisUp)
    /\ redisUp' = FALSE
    /\ calls' = NoteError(frame[p].key)
    /\ pc' = [pc EXCEPT ![p] = "db_count"]
    /\ UNCHANGED <<now, rate_limits, dbUp, request, gi, frame, response,
                   trail, denied_at>>
    /\ UNCHANGED <<authvars, credvars, latevars>>

\* _check_rate_limit_db: the SELECT COUNT(*) and the limit test
DbCount(p) ==
    /\ pc[p] = "db_count"
    /\ dbUp
    /\ LET f == frame[p]
           window_start == now - WindowTicks(f.window)
           current_count == CountRows(rate_limits, f.identifier, f.endpoint, window_start)
       IN IF LimitReached(current_count, f.limit)
          THEN /\ frame' = [frame EXCEPT ![p].allowed = FALSE,
                                         ![p].info = Info(f.limit, 0, f.window),
                                         ![p].path = "db",
                                         ![p].counted_at = now]
               /\ pc' = [pc EXCEPT ![p] = "checked"]
               /\ denied_at' = NoteDenied(Pair(f))
          ELSE /\ frame' = [frame EXCEPT ![p].current_count = current_count,
                                         ![p].counted_at = now]
               /\ pc' = [pc EXCEPT ![p] = "db_insert"]
               /\ UNCHANGED denied_at
    /\ UNCHANGED <<now, redis, rate_limits, redisUp, dbUp, request, gi,
                   response, trail, calls>>
    /\ UNCHANGED <<authvars, credvars, latevars>>

\* _check_rate_limit_db: the INSERT, and the commit of DatabaseManager.__exit__
DbInsert(p) ==
    /\ pc[p] = "db_insert"
    /\ dbUp
    /\ LET f == frame[p] IN
        /\ rate_limits' = InsertRow(rate_limits, f.identifier, f.endpoint, now)
        /\ Return(p, TRUE, Remaining(f.limit, f.current_count), "db")
        /\ admitted' = NoteAdmitted(f)
    /\ UNCHANGED <<now, redis, redisUp, dbUp, request, gi, response, trail, calls>>
    /\ UNCHANGED <<authvars, credvars, quotes, qcall, creating, unique_email, origin>>

\* The database raises psycopg2.Error inside _check_rate_limit_db: the
\* transaction is rolled back and the exception leaves check_rate_limit.
DbError(p) ==
    /\ pc[p] \in {"db_count", "db_insert"}
    /\ ~dbUp
    /\ pc' = [pc EXCEPT ![p] = "raised"]
    /\ frame' = [frame EXCEPT ![p].path = "raised"]
    /\ UNCHANGED <<now, redis, rate_limits, redisUp, dbUp, request, gi,
                   response, trail, calls, denied_at>>
    /\ UNCHANGED <<authvars, credvars, latevars>>

\* The worker dies inside check_rate_limit: nothing is rolled forward.
Crash(p) ==
    /\ pc[p] \in {"redis_get", "redis_exec", "db_count", "db_insert"}
    /\ pc' = [pc EXCEPT ![p] = "idle"]
    /\ request' = [request EXCEPT ![p] = NoRequest]
    /\ gi' = [gi EXCEPT ![p] = 1]
    /\ frame' = [frame EXCEPT ![p] = NoFrame]
    /\ trail' = [trail EXCEPT ![p] = <<>>]
    /\ calls' = NoteError(frame[p].key)
    /\ UNCHANGED <<now, redis, rate_limits, redisUp, dbUp, response, denied_at>>
    /\ UNCHANGED <<authvars, credvars, latevars>>

CheckStep(p) ==
    \/ RedisGet(p)
    \/ RedisGetError(p)
    \/ RedisExec(p)
    \/ RedisExecError(p)
    \/ DbCount(p)
    \/ DbInsert(p)
    \/ DbError(p)
    \/ Crash(p)

\* ------------------------------------------------------------------ environment
\* Time passes; expired keys leave the fast store.
Tick ==
    /\ now < MaxTime
    /\ now' = now + 1
    /\ redis' = RedisLive(redis, now + 1)
    /\ calls' = [k \in {k \in DOMAIN calls : calls[k].bucket_end > now + 1} |-> calls[k]]
    /\ UNCHANGED <<rate_limits, redisUp, dbUp, pc, request, gi, frame, response,
                   trail, denied_at>>
    /\ UNCHANGED <<authvars, credvars, latevars>>

\* The fast store becomes unreachable, or reachable again.
RedisOutage ==
    /\ redisUp' = ~redisUp
    /\ UNCHANGED <<now, redis, rate_limits, dbUp, pc, request, gi, frame,
                   response, trail, calls, denied_at>>
    /\ UNCHANGED <<authvars, credvars, latevars>>

\* The durable store becomes unreachable, or reachable again.
DbOutage ==
    /\ dbUp' = ~dbUp
    /\ UNCHANGED <<now, redis, rate_limits, redisUp, pc, request, gi, frame,
                   response, trail, calls, denied_at>>
    /\ UNCHANGED <<authvars, credvars, latevars>>

\* ------------------------------------------------------------------ direct calls
\* check_rate_limit(identifier, endpoint, limit) called on its own, with the
\* default window_minutes.
DefaultWindow == 1
CallIdentifiers == {"ip:10.0.0.1"}
CallEndpoints == {"default"}

CallCheck(p) ==
    /\ pc[p] \in {"idle", "checked", "raised"}
    /\ \E identifier \in CallIdentifiers, endpoint \in CallEndpoints :
        BeginCheck(p, "", identifier, endpoint, CallLimit, DefaultWindow)
    /\ UNCHANGED <<now, redis, rate_limits, redisUp, dbUp, request, gi,
                   response, trail>>
    /\ UNCHANGED <<authvars, credvars, latevars>>

\* Calls one after the other.
Next ==
    \/ Tick
    \/ RedisOutage
    \/ DbOutage
    \/ CallCheck(1)
    \/ CheckStep(1)
Spec == Init /\ [][Next]_vars

\* Calls one after the other on a fast store that answers, while time
\* passes; the calls admitted are kept.
InitBurst ==
    /\ Idle
    /\ admitted = [on |-> TRUE, at |-> <<>>]
    /\ redis = <<>>
    /\ rate_limits = <<>>
    /\ calls = <<>>

NextBurst ==
    \/ Tick
    \/ CallCheck(1)
    \/ RedisGet(1)
    \/ RedisExec(1)
SpecBurst == InitBurst /\ [][NextBurst]_vars

\* Calls one after the other within one window, on stores that come and
\* go; the calls admitted are kept.
NextSwitch ==
    \/ RedisOutage
    \/ DbOutage
    \/ CallCheck(1)
    \/ CheckStep(1)
SpecSwitch == InitBurst /\ [][NextSwitch]_vars

\* Calls one after the other for two clients and two endpoints, through
\* the fast store or, when it does not answer, the table.
CallPairs ==
    { <<"ip:10.0.0.1", "default">>, <<"ip:10.0.0.2", "default">>,
      <<"ip:10.0.0.1", "ai_detection">> }

CallPair(p) ==
    /\ pc[p] \in {"idle", "checked", "raised"}
    /\ \E pair \in CallPairs :
        BeginCheck(p, "", pair[1], pair[2], CallLimit, DefaultWindow)
    /\ UNCHANGED <<now, redis, rate_limits, redisUp, dbUp, request, gi,
                   response, trail>>
    /\ UNCHANGED <<authvars, credvars, latevars>>

NextPairs ==
    \/ RedisOutage
    \/ CallPair(1)
    \/ RedisGet(1)
    \/ RedisGetError(1)
    \/ RedisExec(1)
    \/ DbCount(1)
    \/ DbInsert(1)
SpecPairs == Init /\ [][NextPairs]_vars

\* Calls by all the workers at once, on a fast store that answers.
NextConcurrent ==
    \E p \in Procs :
        \/ CallCheck(p)
        \/ RedisGet(p)
        \/ RedisExec(p)
SpecConcurrent == Init /\ [][NextConcurrent]_vars

\* ------------------------------------------------------------------ steps of a request
\* A request arrives at a free worker.
StartRequest(p) ==
    /\ pc[p] \in {"idle", "done"}
    /\ \E req \in Requests : request' = [request EXCEPT ![p] = req]
    /\ pc' = [pc EXCEPT ![p] = "gate"]
    /\ gi' = [gi EXCEPT ![p] = 1]
    /\ frame' = [frame EXCEPT ![p] = NoFrame]
    /\ response' = [response EXCEPT ![p] = NoResponse]
    /\ trail' = [trail EXCEPT ![p] = <<>>]
    /\ UNCHANGED <<now, redis, rate_limits, redisUp, dbUp, calls, denied_at>>
    /\ UNCHANGED <<authvars, credvars, latevars>>

\* return f(*args, **kwargs): on to the next decorator or the route's function
Proceed(p) ==
    /\ pc' = [pc EXCEPT ![p] = "gate"]
    /\ gi' = [gi EXCEPT ![p] = gi[p] + 1]
    /\ frame' = [frame EXCEPT ![p] = NoFrame]
    /\ UNCHANGED <<calls, denied_at>>

\* A response without the Retry-After header.
Respond_NoRetryAfter(p, status, error, info, retry_after) ==
    /\ pc' = [pc EXCEPT ![p] = "done"]
    /\ response' = [response EXCEPT ![p] =
           [status |-> status, error |-> error, limit |-> info.limit,
            remaining |-> info.remaining, reset |-> info.reset_time,
            retry_after |-> 0]]

\* The request ends with a response.
Respond(p, status, error, info, retry_after) ==
    /\ pc' = [pc EXCEPT ![p] = "done"]
    /\ response' = [response EXCEPT ![p] =
           [status |-> status, error |-> error, limit |-> info.limit,
            remaining |-> info.remaining, reset |-> info.reset_time,
            retry_after |-> retry_after]]

\* apply_rate_limit, "Check tenant-based rate limiting"
TenantStage(p) ==
    LET g == Gate(p)
        cfg == get_rate_limit_config(g.endpoint)
        tenant_id == TenantIdOf(request[p])
    IN
    IF g.per_tenant /\ tenant_id # ""
    THEN /\ BeginCheck(p, "tenant", "tenant:" \o tenant_id, g.endpoint,
                       TenantLimit(cfg.limit), cfg.window)
         /\ UNCHANGED gi
    ELSE Proceed(p)

\* require_auth
RequireAuthStep(p) ==
    /\ AtGate(p, "require_auth")
    /\ LET r == require_auth(request[p])
           token == request[p].authorization.token
       IN
        /\ trail' = [trail EXCEPT ![p] = Append(@, Event("require_auth", "", "", 0, 0, r.status = 0))]
        /\ IF r.status # 0
           THEN /\ Respond(p, r.status, r.error, NoInfo, 0)
                /\ UNCHANGED <<request, gi, frame, calls, denied_at>>
           ELSE /\ request' = [request EXCEPT
                       ![p].has_current_user = TRUE,
                       ![p].current_user = [user_id |-> token.user_id,
                                            tenant_id |-> token.tenant_id,
                                            role |-> token.role]]
                /\ Proceed(p)
                /\ UNCHANGED response
    /\ UNCHANGED <<now, redis, rate_limits, redisUp, dbUp>>
    /\ UNCHANGED <<authvars, credvars, latevars>>

\* require_role
RequireRoleStep(p) ==
    /\ AtGate(p, "require_role")
    /\ LET r == require_role(request[p], Gate(p).role) IN
        /\ trail' = [trail EXCEPT ![p] = Append(@, Event("require_role", "", "", 0, 0, r.status = 0))]
        /\ IF r.status # 0
           THEN /\ Respond(p, r.status, r.error, NoInfo, 0)
                /\ UNCHANGED <<gi, frame, calls, denied_at>>
           ELSE /\ Proceed(p)
                /\ UNCHANGED response
    /\ UNCHANGED <<now, redis, rate_limits, redisUp, dbUp, request>>
    /\ UNCHANGED <<authvars, credvars, latevars>>

\* apply_rate_limit.decorated_function, up to its first store access
EnterRateLimit(p) ==
    /\ AtGate(p, "apply_rate_limit")
    /\ LET g == Gate(p)
           cfg == get_rate_limit_config(g.endpoint)
       IN IF g.per_ip
          THEN /\ BeginCheck(p, "ip", "ip:" \o _get_client_ip(request[p]), g.endpoint,
                             cfg.limit, cfg.window)
               /\ UNCHANGED gi
          ELSE TenantStage(p)
    /\ UNCHANGED <<now, redis, rate_limits, redisUp, dbUp, request, response, trail>>
    /\ UNCHANGED <<authvars, credvars, latevars>>

\* apply_rate_limit after a check returned: reject with 429, or go on
RateLimitDecide(p) ==
    /\ pc[p] = "checked"
    /\ LET f == frame[p] IN
        /\ trail' = [trail EXCEPT ![p] = Append(@, Event("check", f.axis, f.endpoint, f.limit, f.window, f.allowed))]
        /\ IF Rejects(f.allowed)
           THEN /\ Respond(p, 429, "Rate limit exceeded", f.info, f.window * 60)
                /\ frame' = [frame EXCEPT ![p] = NoFrame]
                /\ UNCHANGED <<gi, calls, denied_at>>
           ELSE /\ IF f.axis = "ip" THEN TenantStage(p) ELSE Proceed(p)
                /\ UNCHANGED response
    /\ UNCHANGED <<now, redis, rate_limits, redisUp, dbUp, request>>
    /\ UNCHANGED <<authvars, credvars, latevars>>

\* handle_db_error: the psycopg2.Error that left check_rate_limit is answered 500.
ErrorHandler(p) ==
    /\ pc[p] = "raised"
    /\ trail' = [trail EXCEPT ![p] =
           Append(@, Event("raised", frame[p].axis, frame[p].endpoint, frame[p].limit,
                     frame[p].window, FALSE))]
    /\ Respond(p, 500, "Database error", NoInfo, 0)
    /\ frame' = [frame EXCEPT ![p] = NoFrame]
    /\ UNCHANGED <<now, redis, rate_limits, redisUp, dbUp, request, gi, calls,
                   denied_at>>
    /\ UNCHANGED <<authvars, credvars, latevars>>

\* The route's function runs.
Handler(p) ==
    /\ pc[p] = "gate"
    /\ gi[p] = Len(Stack(request[p].route)) + 1
    /\ trail' = [trail EXCEPT ![p] = Append(@, Event("handler", "", "", 0, 0, TRUE))]
    /\ Respond(p, 200, "", NoInfo, 0)
    /\ UNCHANGED <<now, redis, rate_limits, redisUp, dbUp, request, gi, frame,
                   calls, denied_at>>
    /\ UNCHANGED <<authvars, credvars, latevars>>

\* ------------------------------------------------------------------ steps of the token service
\* The users tokens are issued for, as authenticate_user returns them.
Identities == { <<"u1", "t1", "staff">>, <<"u3", "t1", "admin">> }

\* Tokens not made by generate_jwt_token that a client can present.
CraftedTokens ==
    { ExpiredToken, ForgedToken, GarbageToken, NoUserIdToken, NoRoleToken, NoExpToken }

\* The instants the token service is looked at: the start of the clock and
\* the tick after it, and the ticks around a day later.
Instants == {0, 1} \cup ((TokenTTL - 1)..(TokenTTL + ClockSlack))

\* The payload with the tenant where the user belongs.
generate_jwt_token_Swapped(user_id, tenant_id, role, exp_clock, iat_clock) ==
    Jwt(tenant_id, user_id, role, iat_clock, exp_clock + TokenTTL, "good")

\* generate_jwt_token: 'exp': datetime.utcnow() + timedelta(hours=24) and
\* 'iat': datetime.utcnow() are two readings of the clock, exp_clock first.
generate_jwt_token(user_id, tenant_id, role, exp_clock, iat_clock) ==
    Jwt(user_id, tenant_id, role, iat_clock, exp_clock + TokenTTL, "good")

\* An error the token service raised: in which function, for what cause.
Failure(op, cause, result) ==
    [op |-> op, cause |-> cause, kind |-> result.kind, error |-> result.error]

\* Why a token cannot verify: no secret, not a JWT of this secret, or a
\* JWT of this secret past its exp.
Cause(token) ==
    IF ~secret THEN "no_secret"
    ELSE IF token.kind = "jwt" /\ token.sig = "good" THEN "expired"
    ELSE "invalid"

\* generate_jwt_token builds the payload up to 'exp'.
IssueBegin ==
    /\ app = "serving"
    /\ ~issuing.active
    /\ Cardinality(issued) < MaxTokens
    /\ \E id \in Identities :
        issuing' = [active |-> TRUE, user_id |-> id[1], tenant_id |-> id[2],
                    role |-> id[3], clock |-> now]
    /\ UNCHANGED <<credvars, latevars>>
    /\ UNCHANGED <<now, redis, rate_limits, redisUp, dbUp, pc, request, gi, frame,
                   response, trail, calls, denied_at, secret, app, issued,
                   verdict, log, failures>>

\* generate_jwt_token reads the clock for 'iat', reads the secret and signs.
IssueEnd ==
    /\ app = "serving"
    /\ issuing.active
    /\ issuing' = NoIssue
    /\ IF secret
       THEN /\ issued' = issued \cup
                   { [for |-> <<issuing.user_id, issuing.tenant_id, issuing.role>>,
                      token |-> generate_jwt_token(issuing.user_id, issuing.tenant_id,
                                                   issuing.role, issuing.clock, now)] }
            /\ UNCHANGED failures
       ELSE /\ failures' = failures \cup
                   { Failure("issue", "no_secret",
                             Raised("ValueError",
                                    "JWT_SECRET_KEY environment variable not set")) }
            /\ UNCHANGED issued
    /\ UNCHANGED <<credvars, latevars>>
    /\ UNCHANGED <<now, redis, rate_limits, redisUp, dbUp, pc, request, gi, frame,
                   response, trail, calls, denied_at, secret, app, verdict, log>>

IssuedTokens == { i.token : i \in issued }

\* decode_jwt_token is called on a token.
Verify ==
    /\ app = "serving"
    /\ \E token \in IssuedTokens \cup CraftedTokens :
        LET result == decode_jwt_token(token)
            known == token \in DOMAIN log
            ok_at == IF known THEN log[token].ok_at ELSE -1
            expired_before == IF known THEN log[token].expired ELSE FALSE
        IN
        /\ verdict' = [made |-> TRUE, token |-> token, at |-> now, result |-> result,
                       ok_at |-> ok_at, expired_before |-> expired_before]
        /\ log' = IF token \notin IssuedTokens THEN log
                  ELSE [k \in DOMAIN log \cup {token} |->
                          IF k # token THEN log[k]
                          ELSE [ok_at |-> IF result.ok /\ ok_at = -1 THEN now ELSE ok_at,
                                expired |-> expired_before
                                            \/ result.error = "Token has expired"]]
        /\ failures' = IF result.ok THEN failures
                       ELSE failures \cup { Failure("verify", Cause(token), result) }
    /\ UNCHANGED <<credvars, latevars>>
    /\ UNCHANGED <<now, redis, rate_limits, redisUp, dbUp, pc, request, gi, frame,
                   response, trail, calls, denied_at, secret, app, issuing, issued>>

\* Time passes, up to a later instant; expired keys leave the fast store.
Elapse ==
    /\ \E t \in Instants :
        /\ t > now
        /\ now' = t
        /\ redis' = RedisLive(redis, t)
        /\ calls' = [k \in {k \in DOMAIN calls : calls[k].bucket_end > t} |-> calls[k]]
    /\ UNCHANGED <<rate_limits, redisUp, dbUp, pc, request, gi, frame, response,
                   trail, denied_at>>
    /\ UNCHANGED <<authvars, credvars, latevars>>

\* The token service of a process that serves, with its secret.
NextAuth ==
    \/ IssueBegin
    \/ IssueEnd
    \/ Verify
    \/ Elapse
SpecAuth == Init /\ [][NextAuth]_vars

\* ------------------------------------------------------------------ startup
\* The process before it serves; JWT_SECRET_KEY is set or it is not.
InitBoot ==
    /\ now = 0
    /\ redisUp = TRUE
    /\ dbUp = TRUE
    /\ pc = [p \in Procs |-> "idle"]
    /\ request = [p \in Procs |-> NoRequest]
    /\ gi = [p \in Procs |-> 1]
    /\ frame = [p \in Procs |-> NoFrame]
    /\ response = [p \in Procs |-> NoResponse]
    /\ trail = [p \in Procs |-> <<>>]
    /\ denied_at = <<>>
    /\ redis = <<>>
    /\ rate_limits = <<>>
    /\ calls = <<>>
    /\ secret \in BOOLEAN
    /\ app = "boot"
    /\ issuing = NoIssue
    /\ issued = {}
    /\ verdict = NoVerdict
    /\ log = <<>>
    /\ failures = {}
    /\ users = <<>>
    /\ reply = NoReply
    /\ first401 = ""
    /\ firstRefusal = ""
    /\ admitted = NoAdmitted
    /\ quotes = <<>>
    /\ qcall = [p \in Procs |-> NoQCall]
    /\ creating = [p \in Procs |-> NoCreate]
    /\ unique_email = FALSE
    /\ origin = [p \in Procs |-> NoOrigin]

\* python app_secure.py: the __main__ block checks the environment, then app.run
StartMain ==
    /\ app = "boot"
    /\ app' = IF secret THEN "serving" ELSE "exited"
    /\ UNCHANGED <<credvars, latevars>>
    /\ UNCHANGED <<now, redis, rate_limits, redisUp, dbUp, pc, request, gi, frame,
                   response, trail, calls, denied_at, secret, issuing, issued,
                   verdict, log, failures>>

\* The module is imported and its app served by a WSGI server: the
\* __main__ block does not run.
StartImported ==
    /\ app = "boot"
    /\ app' = "serving"
    /\ UNCHANGED <<credvars, latevars>>
    /\ UNCHANGED <<now, redis, rate_limits, redisUp, dbUp, pc, request, gi, frame,
                   response, trail, calls, denied_at, secret, issuing, issued,
                   verdict, log, failures>>

NextStartup ==
    \/ StartMain
    \/ StartImported
    \/ IssueBegin
    \/ IssueEnd
    \/ Verify
    \/ Elapse
SpecStartup == InitBoot /\ [][NextStartup]_vars

\* Requests through the decorators of their routes, one after the other.
NextGates ==
    \/ RedisOutage
    \/ DbOutage
    \/ StartRequest(1)
    \/ RequireAuthStep(1)
    \/ RequireRoleStep(1)
    \/ EnterRateLimit(1)
    \/ CheckStep(1)
    \/ RateLimitDecide(1)
    \/ ErrorHandler(1)
    \/ Handler(1)
SpecGates == InitGates /\ [][NextGates]_vars

\* ------------------------------------------------------------------ the two axes
\* Requests to POST /api/quotes (token, then rate limit) and to POST
\* /api/auth/register (rate limit, no token asked), with and without
\* X-Tenant-Slug.  "t1" as a slug is the id of the tenant of the tokens.
AxisRequests ==
    { [NoRequest EXCEPT !.route = "create_quote", !.remote_addr = "10.0.0.1",
                        !.authorization = h, !.tenant_slug = s] :
        h \in {Bearer(StaffToken)}, s \in {"", "acme"} }
    \cup
    { [NoRequest EXCEPT !.route = "register", !.remote_addr = "10.0.0.1",
                        !.authorization = h, !.tenant_slug = s] :
        h \in {NoHeader, Bearer(StaffToken)}, s \in {"", "acme", "t1"} }

\* One of these requests arrives at a free worker.
StartAxisRequest(p) ==
    /\ pc[p] \in {"idle", "done"}
    /\ \E req \in AxisRequests : request' = [request EXCEPT ![p] = req]
    /\ pc' = [pc EXCEPT ![p] = "gate"]
    /\ gi' = [gi EXCEPT ![p] = 1]
    /\ frame' = [frame EXCEPT ![p] = NoFrame]
    /\ response' = [response EXCEPT ![p] = NoResponse]
    /\ trail' = [trail EXCEPT ![p] = <<>>]
    /\ origin' = [origin EXCEPT ![p] = [on |-> TRUE, redis |-> redis,
                                         rate_limits |-> rate_limits]]
    /\ UNCHANGED <<now, redis, rate_limits, redisUp, dbUp, calls, denied_at>>
    /\ UNCHANGED <<authvars, credvars, admitted, quotes, qcall, creating, unique_email>>

NextAxes ==
    \/ StartAxisRequest(1)
    \/ RequireAuthStep(1)
    \/ EnterRateLimit(1)
    \/ RedisGet(1)
    \/ RedisExec(1)
    \/ RateLimitDecide(1)
    \/ Handler(1)
SpecAxes == InitGates /\ [][NextAxes]_vars

\* ------------------------------------------------------------------ credential calls
\* The table users as the service finds it: a staff user of tenant t1, and
\* with or without a user of tenant t2 of the same address whose stored
\* password is no hash.
SeedStores ==
    { [u \in {"u1"} |-> Row("t1", "a@x.io", hash_password("Passw0rd"), "staff")],
      [u \in {"u1", "u2"} |->
          IF u = "u1" THEN Row("t1", "a@x.io", hash_password("Passw0rd"), "staff")
          ELSE Row("t2", "a@x.io", LegacyHash, "customer")] }

\* A process that serves, over one of these tables.
Serving ==
    /\ now = 0
    /\ redisUp = TRUE
    /\ dbUp = TRUE
    /\ pc = [p \in Procs |-> "idle"]
    /\ request = [p \in Procs |-> NoRequest]
    /\ gi = [p \in Procs |-> 1]
    /\ frame = [p \in Procs |-> NoFrame]
    /\ response = [p \in Procs |-> NoResponse]
    /\ trail = [p \in Procs |-> <<>>]
    /\ denied_at = <<>>
    /\ redis = <<>>
    /\ rate_limits = <<>>
    /\ calls = <<>>
    /\ secret = TRUE
    /\ app = "serving"
    /\ issuing = NoIssue
    /\ issued = {}
    /\ verdict = NoVerdict
    /\ log = <<>>
    /\ failures = {}
    /\ users \in SeedStores
    /\ reply = NoReply
    /\ admitted = NoAdmitted
    /\ qcall = [p \in Procs |-> NoQCall]
    /\ creating = [p \in Procs |-> NoCreate]
    /\ origin = [p \in Procs |-> NoOrigin]

\* The two histories of answers are not kept ...
InitUsers ==
    /\ Serving
    /\ unique_email = FALSE
    /\ quotes = <<>>
    /\ first401 = "-"
    /\ firstRefusal = "-"

\* ... or are kept, and empty.
InitAnswers ==
    /\ Serving
    /\ unique_email = FALSE
    /\ quotes = <<>>
    /\ first401 = ""
    /\ firstRefusal = ""

\* History: how the store stands to a login, check by check.
Situation(email, password, tenant_slug) ==
    LET tenant == ActiveTenant(tenant_slug)
        found == UNION { UsersByEmail(email, t) : t \in tenant }
        u == CHOOSE u \in found : TRUE
        matches == users[u].password_hash.of = password
    IN
    IF ~validate_email(email) \/ password = "" \/ tenant_slug = "" THEN "bad_input"
    ELSE IF ~dbUp THEN "store_down"
    ELSE IF tenant = {} THEN "no_tenant"
    ELSE IF found = {} THEN "no_user"
    ELSE IF users[u].password_hash.scheme # "bcrypt"
    THEN IF users[u].is_active THEN "malformed_hash" ELSE "disabled"
    ELSE IF ~matches
    THEN IF users[u].is_active THEN "wrong_password" ELSE "disabled_wrong_password"
    ELSE IF users[u].is_active THEN "ok" ELSE "disabled"

\* Logins that cannot succeed because of the password or the account.
Refusals == {"no_user", "wrong_password", "disabled_wrong_password"}

\* The call is over: its reply, and the two histories.
Answer(r) ==
    /\ reply' = r
    /\ first401' = IF first401 = "" /\ r.status = 401 THEN r.message ELSE first401
    /\ firstRefusal' = IF firstRefusal = "" /\ r.op = "login" /\ r.case \in Refusals
                       THEN r.message ELSE firstRefusal

\* UPDATE users SET last_login = CURRENT_TIMESTAMP WHERE id = %s
TouchLogin(table, u) ==
    [v \in DOMAIN table |->
        IF v # u THEN table[v]
        ELSE [tenant_id |-> table[v].tenant_id, email |-> table[v].email,
              password_hash |-> table[v].password_hash, role |-> table[v].role,
              is_active |-> table[v].is_active, last_login |-> now,
              created_in |-> table[v].created_in]]

\* POST /api/auth/login, the function of the route with the error
\* handlers of the app: LoginSchema, authenticate_user, generate_jwt_token;
\* ValidationError is answered 400, AuthenticationError 401, and any other
\* exception is raised again as AuthenticationError("Login failed").
login ==
    /\ app = "serving"
    /\ \E email \in Emails, password \in {"Passw0rd", "Secret99"}, tenant_slug \in Slugs :
        LET o == authenticate_user(email, password, tenant_slug)
            valid == validate_email(email) /\ password # "" /\ tenant_slug # ""
            token == generate_jwt_token(o.user_id, users[o.user_id].tenant_id,
                                        users[o.user_id].role, now, now)
            entry == [for |-> <<token.user_id, token.tenant_id, token.role>>,
                      token |-> token]
            base == [NoReply EXCEPT !.op = "login", !.email = email,
                                    !.password = password, !.tenant = tenant_slug,
                                    !.case = Situation(email, password, tenant_slug)]
        IN
        IF ~valid
        THEN /\ Answer([base EXCEPT !.status = 400, !.kind = "ValidationError",
                                    !.message = "Validation failed"])
             /\ UNCHANGED <<users, issued>>
        ELSE IF o.kind = "AuthenticationError"
        THEN /\ Answer([base EXCEPT !.status = 401, !.kind = o.kind,
                                    !.message = o.message])
             /\ UNCHANGED <<users, issued>>
        ELSE IF o.kind # ""
        THEN /\ Answer([base EXCEPT !.status = 401, !.kind = o.kind,
                                    !.message = "Login failed"])
             /\ UNCHANGED <<users, issued>>
        ELSE IF ~secret
        THEN /\ Answer([base EXCEPT !.status = 401, !.kind = "ValueError",
                                    !.message = "Login failed", !.user_id = o.user_id])
             /\ users' = TouchLogin(users, o.user_id)
             /\ UNCHANGED issued
        ELSE /\ Cardinality(issued \cup {entry}) <= MaxTokens
             /\ Answer([base EXCEPT !.status = 200, !.user_id = o.user_id,
                                    !.token = token])
             /\ users' = TouchLogin(users, o.user_id)
             /\ issued' = issued \cup {entry}
    /\ UNCHANGED latevars
    /\ UNCHANGED <<now, redis, rate_limits, redisUp, dbUp, pc, request, gi, frame,
                   response, trail, calls, denied_at, secret, app, issuing,
                   verdict, log, failures>>

\* A request with an Authorization header to a route behind require_auth
\* and require_role(required).
authorize ==
    /\ app = "serving"
    /\ \E h \in { NoHeader, Header("Bearer", 1, EmptyToken), Bearer(ExpiredToken),
                  Bearer(GarbageToken) } \cup { Bearer(t) : t \in IssuedTokens },
          required \in {"staff", "admin"} :
        LET req == [NoRequest EXCEPT !.route = "role_only", !.remote_addr = "10.0.0.1",
                                     !.authorization = h]
            a == require_auth(req)
            payload == decode_jwt_token(h.token).payload
            authed == [req EXCEPT !.has_current_user = TRUE,
                                  !.current_user = [user_id |-> payload.user_id,
                                                    tenant_id |-> payload.tenant_id,
                                                    role |-> payload.role]]
            z == require_role(authed, required)
            base == [NoReply EXCEPT !.op = "authorize", !.token = h.token,
                                    !.required = required]
        IN
        IF a.status # 0
        THEN Answer([base EXCEPT !.status = a.status, !.message = a.error])
        ELSE IF z.status # 0
        THEN Answer([base EXCEPT !.status = z.status, !.message = z.error,
                                 !.user_id = payload.user_id])
        ELSE Answer([base EXCEPT !.status = 200, !.user_id = payload.user_id])
    /\ UNCHANGED latevars
    /\ UNCHANGED <<now, redis, rate_limits, redisUp, dbUp, pc, request, gi, frame,
                   response, trail, calls, denied_at>>
    /\ UNCHANGED <<authvars, users>>

\* POST /api/auth/register, the function of the route with the error
\* handlers of the app: get_tenant_from_request looks the slug of
\* X-Tenant-Slug up; no tenant is a ValidationError, answered 400.  The
\* module binds no name user_manager: with a tenant the call raises
\* NameError, answered 500 by handle_generic_error.
register ==
    /\ app = "serving"
    /\ \E email \in Emails, tenant_slug \in Slugs :
        LET base == [NoReply EXCEPT !.op = "register", !.email = email,
                                    !.tenant = tenant_slug,
                                    !.case = IF ~validate_email(email) THEN "bad_input"
                                             ELSE IF tenant_slug = "" THEN "no_slug"
                                             ELSE IF ~dbUp THEN "store_down"
                                             ELSE IF ActiveTenant(tenant_slug) = {}
                                             THEN "no_tenant" ELSE "ok"]
        IN
        IF ~validate_email(email)
        THEN Answer([base EXCEPT !.status = 400, !.kind = "ValidationError",
                                 !.message = "Validation failed"])
        ELSE IF tenant_slug = ""
        THEN Answer([base EXCEPT !.status = 400, !.kind = "ValidationError",
                                 !.message = "Tenant required"])
        ELSE IF ~dbUp
        THEN Answer([base EXCEPT !.status = 500, !.kind = "psycopg2.Error",
                                 !.message = "Database error"])
        ELSE IF ActiveTenant(tenant_slug) = {}
        THEN Answer([base EXCEPT !.status = 400, !.kind = "ValidationError",
                                 !.message = "Tenant required"])
        ELSE Answer([base EXCEPT !.status = 500, !.kind = "NameError",
                                 !.message = "Internal server error"])
    /\ UNCHANGED latevars
    /\ UNCHANGED <<now, redis, rate_limits, redisUp, dbUp, pc, request, gi, frame,
                   response, trail, calls, denied_at>>
    /\ UNCHANGED <<authvars, users>>

\* POST /api/public/quote, the function of the route with the error
\* handlers of the app, for a body that passes QuoteCreateSchema: the slug
\* of X-Tenant-Slug is looked up; a missing slug or no active tenant is a
\* ValidationError, answered 400.  The module binds no name
\* quote_workflow: with a tenant the call raises NameError, answered 500.
create_public_quote ==
    /\ app = "serving"
    /\ \E tenant_slug \in Slugs :
        LET base == [NoReply EXCEPT !.op = "create_public_quote", !.tenant = tenant_slug,
                                    !.case = IF tenant_slug = "" THEN "no_slug"
                                             ELSE IF ~dbUp THEN "store_down"
                                             ELSE IF ActiveTenant(tenant_slug) = {}
                                             THEN "no_tenant" ELSE "ok"]
        IN
        IF tenant_slug = ""
        THEN Answer([base EXCEPT !.status = 400, !.kind = "ValidationError",
                                 !.message = "Tenant slug required in X-Tenant-Slug header"])
        ELSE IF ~dbUp
        THEN Answer([base EXCEPT !.status = 500, !.kind = "psycopg2.Error",
                                 !.message = "Database error"])
        ELSE IF ActiveTenant(tenant_slug) = {}
        THEN Answer([base EXCEPT !.status = 400, !.kind = "ValidationError",
                                 !.message = "Invalid tenant"])
        ELSE Answer([base EXCEPT !.status = 500, !.kind = "NameError",
                                 !.message = "Internal server error"])
    /\ UNCHANGED latevars
    /\ UNCHANGED <<now, redis, rate_limits, redisUp, dbUp, pc, request, gi, frame,
                   response, trail, calls, denied_at>>
    /\ UNCHANGED <<authvars, users>>

\* What a function that writes users came to: its outcome and the table.
Wrote(outcome, table) == [outcome |-> outcome, users |-> table]

\* The user is looked for by email alone.
create_user_ByEmail(email, password, tenant_id, role) ==
    IF ~validate_email(email)
    THEN Wrote(Fails("ValueError", "Invalid email format"), users)
    ELSE IF ~validate_password(password)
    THEN Wrote(Fails("ValueError", "Password must be at least 8 characters with uppercase, lowercase, and number"), users)
    ELSE IF role \notin Roles
    THEN Wrote(Fails("ValueError", "Invalid role"), users)
    ELSE IF ~dbUp
    THEN Wrote(Fails("psycopg2.Error", "connection failed"), users)
    ELSE IF { u \in DOMAIN users : users[u].email = email } # {}
    THEN Wrote(Fails("ValueError", "User already exists"), users)
    ELSE Wrote(Done(NewId(users)),
               Insert(users, Row(tenant_id, email, hash_password(password), role)))

\* auth.create_user
create_user(email, password, tenant_id, role) ==
    IF ~validate_email(email)
    THEN Wrote(Fails("ValueError", "Invalid email format"), users)
    ELSE IF ~validate_password(password)
    THEN Wrote(Fails("ValueError", "Password must be at least 8 characters with uppercase, lowercase, and number"), users)
    ELSE IF role \notin Roles
    THEN Wrote(Fails("ValueError", "Invalid role"), users)
    ELSE IF ~dbUp
    THEN Wrote(Fails("psycopg2.Error", "connection failed"), users)
    ELSE IF UsersByEmail(email, tenant_id) # {}
    THEN Wrote(Fails("ValueError", "User already exists"), users)
    ELSE Wrote(Done(NewId(users)),
               Insert(users, Row(tenant_id, email, hash_password(password), role)))

\* UserManager.create_user, with send_invitation = False
UserManager_create_user(tenant_id, email, role) ==
    IF ~validate_email(email)
    THEN Wrote(Fails("ValidationError", "Invalid email format"), users)
    ELSE IF role \notin Roles
    THEN Wrote(Fails("ValidationError", "Invalid role"), users)
    ELSE IF ~dbUp
    THEN Wrote(Fails("psycopg2.Error", "connection failed"), users)
    ELSE IF UsersByEmail(email, tenant_id) # {}
    THEN Wrote(Fails("ValidationError", "User already exists"), users)
    ELSE Wrote(Done(NewId(users)),
               Insert(users, Row(tenant_id, email, hash_password(temp_password), role)))

\* The updates dictionary of update_user: the keys it names and their values.
Updates(named, role, is_active, tenant_id, email) ==
    [named |-> named, role |-> role, is_active |-> is_active, tenant_id |-> tenant_id,
     email |-> email]
UpdateInputs ==
    { Updates({"role"}, "admin", TRUE, "", ""),
      Updates({"is_active"}, "", TRUE, "", ""),
      Updates({"is_active"}, "", FALSE, "", ""),
      Updates({"tenant_id"}, "", TRUE, "t2", ""),
      Updates({"tenant_id", "email", "role"}, "admin", TRUE, "t2", "b@x.io") }

allowed_fields == {"first_name", "last_name", "phone", "role", "is_active"}

\* UPDATE users SET <the fields> WHERE id = %s
SetFields(table, u, fields, updates) ==
    [v \in DOMAIN table |->
        IF v # u THEN table[v]
        ELSE [tenant_id |-> IF "tenant_id" \in fields THEN updates.tenant_id
                            ELSE table[v].tenant_id,
              email |-> IF "email" \in fields THEN updates.email ELSE table[v].email,
              password_hash |-> table[v].password_hash,
              role |-> IF "role" \in fields THEN updates.role ELSE table[v].role,
              is_active |-> IF "is_active" \in fields THEN updates.is_active
                            ELSE table[v].is_active,
              last_login |-> table[v].last_login,
              created_in |-> table[v].created_in]]

\* Every key of the dictionary is written.
update_user_AnyField(user_id, tenant_id, updates) ==
    LET fields == updates.named
        found == UsersById(user_id, tenant_id)
    IN
    IF "role" \in fields /\ updates.role \notin Roles
    THEN Wrote(Fails("ValidationError", "Invalid role"), users)
    ELSE IF fields = {}
    THEN Wrote(Fails("ValidationError", "No valid fields to update"), users)
    ELSE IF ~dbUp
    THEN Wrote(Fails("psycopg2.Error", "connection failed"), users)
    ELSE IF found = {}
    THEN Wrote(Fails("ValidationError", "User not found"), users)
    ELSE Wrote(Done(user_id), SetFields(users, user_id, fields, updates))

\* UserManager.update_user
update_user(user_id, tenant_id, updates) ==
    LET fields == updates.named \cap allowed_fields
        found == UsersById(user_id, tenant_id)
    IN
    IF "role" \in fields /\ updates.role \notin Roles
    THEN Wrote(Fails("ValidationError", "Invalid role"), users)
    ELSE IF fields = {}
    THEN Wrote(Fails("ValidationError", "No valid fields to update"), users)
    ELSE IF ~dbUp
    THEN Wrote(Fails("psycopg2.Error", "connection failed"), users)
    ELSE IF found = {}
    THEN Wrote(Fails("ValidationError", "User not found"), users)
    ELSE Wrote(Done(user_id), SetFields(users, user_id, fields, updates))

\* The row is removed.
delete_user_Hard(user_id, tenant_id) ==
    IF ~dbUp
    THEN Wrote(Fails("psycopg2.Error", "connection failed"), users)
    ELSE IF UsersById(user_id, tenant_id) = {}
    THEN Wrote(Outcome("", "False", ""), users)
    ELSE Wrote(Outcome("", "True", user_id),
               [v \in DOMAIN users \ {user_id} |-> users[v]])

\* UserManager.delete_user: it returns False when no row matches
delete_user(user_id, tenant_id) ==
    IF ~dbUp
    THEN Wrote(Fails("psycopg2.Error", "connection failed"), users)
    ELSE IF UsersById(user_id, tenant_id) = {}
    THEN Wrote(Outcome("", "False", ""), users)
    ELSE Wrote(Outcome("", "True", user_id),
               SetFields(users, user_id, {"is_active"}, Updates({}, "", FALSE, "", "")))

\* UPDATE users SET password_hash = %s, ... WHERE id = %s
SetPassword(table, u, password_hash) ==
    [v \in DOMAIN table |->
        IF v # u THEN table[v]
        ELSE [tenant_id |-> table[v].tenant_id, email |-> table[v].email,
              password_hash |-> password_hash, role |-> table[v].role,
              is_active |-> table[v].is_active, last_login |-> table[v].last_login,
              created_in |-> table[v].created_in]]

\* UserManager.reset_password
reset_password(user_id, tenant_id, new_password) ==
    IF ~validate_password(new_password)
    THEN Wrote(Fails("ValidationError", "Password must be at least 8 characters with uppercase, lowercase, and number"), users)
    ELSE IF ~dbUp
    THEN Wrote(Fails("psycopg2.Error", "connection failed"), users)
    ELSE IF UsersById(user_id, tenant_id) = {}
    THEN Wrote(Fails("ValidationError", "User not found"), users)
    ELSE Wrote(Done(user_id), SetPassword(users, user_id, hash_password(new_password)))

\* UserManager.get_user: the row, or None
get_user(user_id, tenant_id) ==
    IF ~dbUp
    THEN Wrote(Fails("psycopg2.Error", "connection failed"), users)
    ELSE IF UsersById(user_id, tenant_id) = {}
    THEN Wrote(Outcome("", "None", ""), users)
    ELSE Wrote(Outcome("", "dict(user)", user_id), users)

\* A function that writes users is called and returns or raises.
Write(op, w, email, password, tenant_id, user_id, named) ==
    /\ users' = w.users
    /\ Answer([NoReply EXCEPT !.op = op, !.kind = w.outcome.kind,
                              !.message = w.outcome.message, !.email = email,
                              !.password = password, !.tenant = tenant_id,
                              !.user_id = IF user_id # "" THEN user_id
                                          ELSE w.outcome.user_id,
                              !.named = named,
                              !.case = IF dbUp THEN "" ELSE "store_down"])
    /\ UNCHANGED latevars
    /\ UNCHANGED <<now, redis, rate_limits, redisUp, dbUp, pc, request, gi, frame,
                   response, trail, calls, denied_at>>
    /\ UNCHANGED authvars

CreateUser ==
    \E email \in Emails, password \in {"Passw0rd", "weak"}, tenant_id \in {"t1", "t2"} :
        Write("create_user", create_user(email, password, tenant_id, "customer"),
              email, password, tenant_id, "", {})

ManagerCreateUser ==
    \E email \in Emails, tenant_id \in {"t1", "t2"} :
        Write("UserManager.create_user", UserManager_create_user(tenant_id, email, "customer"),
              email, temp_password, tenant_id, "", {})

UpdateUser ==
    \E user_id \in DOMAIN users, tenant_id \in {"t1", "t2"}, updates \in UpdateInputs :
        Write("update_user", update_user(user_id, tenant_id, updates),
              "", "", tenant_id, user_id, updates.named)

DeleteUser ==
    \E user_id \in DOMAIN users, tenant_id \in {"t1", "t2"} :
        Write("delete_user", delete_user(user_id, tenant_id), "", "", tenant_id, user_id, {})

ResetPassword ==
    \E user_id \in DOMAIN users, tenant_id \in {"t1", "t2"},
       new_password \in {"Secret99", "weak"} :
        Write("reset_password", reset_password(user_id, tenant_id, new_password),
              "", new_password, tenant_id, user_id, {})

GetUser ==
    \E user_id \in DOMAIN users, tenant_id \in {"t1", "t2"} :
        Write("get_user", get_user(user_id, tenant_id), "", "", tenant_id, user_id, {})

\* The functions of UserManager that take a user id and a tenant id, one
\* after the other.
NextManage ==
    \/ GetUser
    \/ UpdateUser
    \/ DeleteUser
    \/ ResetPassword
SpecManage == InitUsers /\ [][NextManage]_vars

\* The users of a process that serves: logins, requests with the tokens
\* of these logins, and the functions that write the table, one after
\* the other.
NextUsers ==
    \/ login
    \/ authorize
    \/ CreateUser
    \/ ManagerCreateUser
    \/ UpdateUser
    \/ DeleteUser
    \/ ResetPassword
SpecUsers == InitUsers /\ [][NextUsers]_vars

\* The answers of a process that serves: requests to the routes without
\* and with a token, users deactivated meanwhile, the durable store
\* answering or not.
NextAnswers ==
    \/ login
    \/ authorize
    \/ register
    \/ create_public_quote
    \/ DeleteUser
    \/ DbOutage
SpecAnswers == InitAnswers /\ [][NextAnswers]_vars

\* ------------------------------------------------------------------ claims
\* A call that check_rate_limit has returned from, and what it found.
Returned(p) == pc[p] = "checked"

\* The call was made and answered inside the bucket of its key.
InBucket(f) == f.key[3] = (f.info.reset_time - WindowTicks(f.window)) \div WindowTicks(f.window)

\* C1 (rate limit boundary).  On a fast-store key that only error-free
\* calls have used, the n-th sequential call inside the bucket is allowed
\* with remaining = limit - n while n <= limit, and is denied with
\* remaining = 0 once n > limit.
C1_Boundary ==
    \A p \in Procs :
        LET f == frame[p] IN
        (Returned(p) /\ f.path = "redis" /\ f.nth > 0 /\ InBucket(f)) =>
            /\ (f.nth <= f.limit) => (f.allowed /\ f.info.remaining = f.limit - f.nth)
            /\ (f.nth > f.limit) => (~f.allowed /\ f.info.remaining = 0)
            /\ f.info.limit = f.limit

\* The call after the limit-th one has been denied on the fast store.
C1_Witness ==
    \E p \in Procs :
        LET f == frame[p] IN
        /\ Returned(p) /\ f.path = "redis" /\ InBucket(f)
        /\ f.nth = f.limit + 1
        /\ ~f.allowed /\ f.info.remaining = 0

\* C2 (atomic increment and limit test).  With calls running concurrently
\* on the fast store for one (identifier, endpoint, bucket), the counter
\* never exceeds the limit.
C2_CounterWithinLimit ==
    \A k \in DOMAIN redis : redis[k].count <= CallLimit

\* Rows of (identifier, endpoint) created after `since`.
RowsWithin(rows, identifier, endpoint, since) ==
    LET hit == {r \in DOMAIN rows : r[1] = identifier /\ r[2] = endpoint /\ r[3] > since}
        sum[S \in SUBSET hit] ==
            IF S = {} THEN 0
            ELSE LET r == CHOOSE x \in S : TRUE IN rows[r] + sum[S \ {r}]
    IN sum[hit]

\* C5 (fallback).  A call decided by the durable store is allowed iff fewer
\* than limit rows of its (identifier, endpoint) lie within the last
\* window_minutes; allowed, it inserts exactly one row of that pair and
\* returns remaining = limit - (count + 1); denied, it inserts none.
C5_Fallback ==
    \A p \in Procs :
        LET f == frame[p]
            n == RowsWithin(f.rows_before, f.identifier, f.endpoint,
                            f.counted_at - WindowTicks(f.window))
        IN (Returned(p) /\ f.path = "db") =>
            /\ f.allowed <=> (n < f.limit)
            /\ f.allowed =>
                /\ f.info.remaining = f.limit - (n + 1)
                /\ \E t \in f.counted_at..now :
                       rate_limits = f.rows_before
                           (+) SetToBag({<<f.identifier, f.endpoint, t>>})
            /\ ~f.allowed => (rate_limits = f.rows_before /\ f.info.remaining = 0)

\* The durable store has denied a call: limit rows lie within the window.
C5_Witness ==
    \E p \in Procs :
        LET f == frame[p] IN
        /\ Returned(p) /\ f.path = "db" /\ ~f.allowed
        /\ BagCardinality(f.rows_before) >= f.limit

\* C6 (no hard failure).  Whatever stores are reachable, check_rate_limit
\* returns a decision: no call ends in an exception.
C6_AlwaysDecides ==
    \A p \in Procs : pc[p] # "raised"

\* C7 (window reset).  When the latest call of a pair was denied and
\* window_minutes have passed since, the next call is allowed with
\* remaining = limit - 1, whichever store decides it.
C7_WindowReset ==
    \A p \in Procs :
        LET f == frame[p] IN
        (Returned(p) /\ f.prev_denied /\ f.started >= f.prev_at + WindowTicks(f.window)) =>
            (f.allowed /\ f.info.remaining = f.limit - 1)

\* A call a window after a denial has been answered by the fast store.
C7_Witness ==
    \E p \in Procs :
        LET f == frame[p] IN
        /\ Returned(p) /\ f.prev_denied /\ f.path = "redis"
        /\ f.started >= f.prev_at + WindowTicks(f.window)
        /\ f.allowed

\* The same, answered by the durable store.
C7_WitnessFallback ==
    \E p \in Procs :
        LET f == frame[p] IN
        /\ Returned(p) /\ f.prev_denied /\ f.path = "db"
        /\ f.started >= f.prev_at + WindowTicks(f.window)
        /\ f.allowed

\* C8 (increment and expiry as a pair).  Every counter key of the fast
\* store has an expiry, also after a store error or a crash inside
\* check_rate_limit.
C8_EveryKeyExpires ==
    \A k \in DOMAIN redis : redis[k].expire_at # NoExpiry

\* execute() has raised although the server applied the block.
C8_Witness ==
    \E p \in Procs :
        LET f == frame[p] IN
        /\ pc[p] = "db_count"
        /\ ~redisUp
        /\ f.key \in DOMAIN redis
        /\ redis[f.key].count = RedisCount(f.redis_before, f.key) + 1

\* The key the call works on has not expired since the call began.
Unexpired(f) ==
    f.key \in DOMAIN f.redis_before => f.redis_before[f.key].expire_at > now

\* C9 (a denial increments nothing).  A call that returns not-allowed
\* leaves the counter of its bucket and the durable rows as it found them.
C9_DeniedChangesNothing ==
    \A p \in Procs :
        LET f == frame[p] IN
        (Returned(p) /\ ~f.allowed /\ Unexpired(f)) =>
            /\ RedisCount(redis, f.key) = RedisCount(f.redis_before, f.key)
            /\ rate_limits = f.rows_before

\* ------------------------------------------------------------------ claims on the gates
\* The route's function has run for the request of worker p.
HandlerRan(p) == \E i \in DOMAIN trail[p] : trail[p][i].ev = "handler"

\* The request of worker p went through gate g and g let it pass.
GatePassed(p, g) ==
    CASE g.kind = "require_auth" ->
            \E i \in DOMAIN trail[p] : trail[p][i].ev = "require_auth" /\ trail[p][i].ok
      [] g.kind = "require_role" ->
            \E i \in DOMAIN trail[p] : trail[p][i].ev = "require_role" /\ trail[p][i].ok
      [] g.kind = "apply_rate_limit" ->
            /\ g.per_ip =>
                 \E i \in DOMAIN trail[p] :
                    /\ trail[p][i].ev = "check" /\ trail[p][i].axis = "ip"
                    /\ trail[p][i].ok
            /\ (g.per_tenant /\ TenantIdOf(request[p]) # "") =>
                 \E i \in DOMAIN trail[p] :
                    /\ trail[p][i].ev = "check" /\ trail[p][i].axis = "tenant"
                    /\ trail[p][i].ok

\* C3 (a rejected request short-circuits).  Once a gate has rejected a
\* request (401, 403 or 429, or a check that came back not-allowed), the
\* route's function is not run for it; the function runs only after every
\* gate of the route's stack has passed.
C3_ShortCircuit ==
    \A p \in Procs :
        request[p].route \in Routes =>
            /\ response[p].status \in {401, 403, 429} => ~HandlerRan(p)
            /\ (\E i \in DOMAIN trail[p] : ~trail[p][i].ok) => ~HandlerRan(p)
            /\ HandlerRan(p) =>
                 \A j \in DOMAIN Stack(request[p].route) :
                     GatePassed(p, Stack(request[p].route)[j])

\* require_role has turned a request away and the function has not run.
C3_Witness ==
    \E p \in Procs :
        /\ pc[p] = "done"
        /\ response[p].status = 403
        /\ \E i \in DOMAIN trail[p] : trail[p][i].ev = "require_role" /\ ~trail[p][i].ok
        /\ ~HandlerRan(p)

\* C4 (dual-axis limiting).  Behind a rate limiter with per_ip and
\* per_tenant and with a tenant resolved, the function runs only after an
\* allowed IP check with the endpoint's limit L and then an allowed tenant
\* check with limit 10 * L on the same endpoint and window; a check that is
\* not allowed ends the request with 429.
C4_DualAxis ==
    \A p \in Procs :
        request[p].route \in Routes =>
            \A j \in DOMAIN Stack(request[p].route) :
                LET g == Stack(request[p].route)[j]
                    L == get_rate_limit_config(g.endpoint).limit
                    W == get_rate_limit_config(g.endpoint).window
                    t == trail[p]
                IN (/\ g.kind = "apply_rate_limit" /\ g.per_ip /\ g.per_tenant
                    /\ TenantIdOf(request[p]) # "") =>
                    /\ HandlerRan(p) =>
                         \E i, k \in DOMAIN t :
                            /\ i < k
                            /\ t[i] = Event("check", "ip", g.endpoint, L, W, TRUE)
                            /\ t[k] = Event("check", "tenant", g.endpoint, 10 * L, W, TRUE)
                    /\ \A i \in DOMAIN t :
                         (t[i].ev = "check" /\ ~t[i].ok) =>
                            (~HandlerRan(p) /\ response[p].status = 429)

\* The client is within its limit, its tenant is not: 429.
C4_Witness ==
    \E p \in Procs :
        LET t == trail[p] IN
        /\ pc[p] = "done"
        /\ response[p].status = 429
        /\ \E i, k \in DOMAIN t :
            /\ i < k
            /\ t[i].ev = "check" /\ t[i].axis = "ip" /\ t[i].ok
            /\ t[k].ev = "check" /\ t[k].axis = "tenant" /\ ~t[k].ok
        /\ ~HandlerRan(p)

\* The stack of the route holds both require_auth and apply_rate_limit.
IdentityAndRateLimited(route) ==
    /\ route \in Routes
    /\ \E j \in DOMAIN Stack(route) : Stack(route)[j].kind = "require_auth"
    /\ \E j \in DOMAIN Stack(route) : Stack(route)[j].kind = "apply_rate_limit"

\* A check_rate_limit call of the request has come to its end.
IsCheck(e) == e.ev \in {"check", "raised"}

\* C10 as stated (gate ordering).  On a route that requires identity and is
\* rate limited, the rate limiter has checked the request before
\* require_auth validates the token, so that a request answered 401 has
\* been counted.
C10_RateLimitBeforeAuth ==
    \A p \in Procs :
        IdentityAndRateLimited(request[p].route) =>
            LET t == trail[p] IN
            \A i \in DOMAIN t :
                t[i].ev = "require_auth" => \E j \in 1..(i - 1) : IsCheck(t[j])

\* C10 as amended.  On such a route require_auth validates the token first,
\* the rate limiter then checks the IP axis and after it the tenant axis,
\* and the function runs last; a request answered 401 has gone through no
\* check_rate_limit call.
C10_AuthBeforeRateLimit ==
    \A p \in Procs :
        IdentityAndRateLimited(request[p].route) =>
            LET t == trail[p] IN
            /\ \A i \in DOMAIN t :
                 IsCheck(t[i]) =>
                    \E j \in 1..(i - 1) : t[j].ev = "require_auth" /\ t[j].ok
            /\ \A i \in DOMAIN t :
                 (IsCheck(t[i]) /\ t[i].axis = "tenant") =>
                    \E j \in 1..(i - 1) :
                        t[j].ev = "check" /\ t[j].axis = "ip" /\ t[j].ok
            /\ \A i \in DOMAIN t :
                 t[i].ev = "handler" =>
                    /\ i = Len(t)
                    /\ \E j \in 1..(i - 1) : t[j].ev = "check"
            /\ response[p].status = 401 =>
                 (\A i \in DOMAIN t : ~IsCheck(t[i]))
            /\ (pc[p] \in {"redis_get", "redis_exec", "db_count", "db_insert"}) =>
                 \E j \in DOMAIN t : t[j].ev = "require_auth" /\ t[j].ok

\* A request without a token has been answered 401 before any check.
C10_Witness ==
    \E p \in Procs :
        /\ pc[p] = "done"
        /\ IdentityAndRateLimited(request[p].route)
        /\ request[p].authorization.words = 0
        /\ response[p].status = 401
        /\ trail[p] = <<Event("require_auth", "", "", 0, 0, FALSE)>>

\* C11 (the 429 response).  A request answered 429 was turned away by its
\* latest check, and the response carries that axis's limit (L for the IP,
\* 10 * L for the tenant), remaining 0, the reset time of the check and
\* Retry-After = the window in seconds.
C11_RejectionHeaders ==
    \A p \in Procs :
        response[p].status = 429 =>
            LET t == trail[p]
                e == t[Len(t)]
                L == get_rate_limit_config(e.endpoint).limit
                W == get_rate_limit_config(e.endpoint).window
            IN /\ Len(t) > 0
               /\ e.ev = "check" /\ ~e.ok
               /\ e.axis \in {"ip", "tenant"}
               /\ response[p].limit = (IF e.axis = "tenant" THEN 10 * L ELSE L)
               /\ response[p].remaining = 0
               /\ response[p].reset = now + W * TicksPerMinute
               /\ response[p].retry_after = W * 60

\* The IP axis has turned a request away.
C11_Witness ==
    \E p \in Procs :
        LET t == trail[p] IN
        /\ pc[p] = "done"
        /\ response[p].status = 429
        /\ t[Len(t)].axis = "ip"
        /\ response[p].limit = RATE_LIMITS["quote_create"].limit
        /\ response[p].retry_after = 60

\* require_auth is the outermost decorator of the route.
AuthFirst(route) == route \in Routes /\ Stack(route)[1].kind = "require_auth"

\* The header reads `Bearer <token>` with a token that is not empty.
WellFormedBearer(h) == h.scheme = "Bearer" /\ h.words = 2 /\ h.token.kind # "empty"

\* require_auth has let the request of worker p pass.
AuthPassed(p) ==
    \E i \in DOMAIN trail[p] : trail[p][i].ev = "require_auth" /\ trail[p][i].ok

\* C12 (header form).  A request whose Authorization header is absent or
\* is not `Bearer <token>` gets no identity from require_auth, does not pass
\* it, does not reach the handler and ends 401.
C12_OnlyBearer ==
    \A p \in Procs :
        (AuthFirst(request[p].route) /\ ~WellFormedBearer(request[p].authorization)) =>
            /\ ~AuthPassed(p)
            /\ ~request[p].has_current_user
            /\ ~HandlerRan(p)
            /\ pc[p] = "done" => response[p].status = 401

\* The token is a JWT signed with the secret and not past its exp.
TokenVerifies(token) ==
    /\ token.kind = "jwt"
    /\ token.sig = "good"
    /\ token.exp = NoExp \/ token.exp > now

\* C13 (one terminal state of require_auth).  Once require_auth has dealt
\* with a request that presents a token: if the token does not verify the
\* request has ended 401 with no identity attached and no handler run; if
\* it verifies, the identity attached is the user_id, tenant_id and role of
\* the token, the request is not answered 401, and on a route with no
\* further gate it ends with the handler run.
C13_AuthTerminal ==
    \A p \in Procs :
        LET req == request[p]
            h == req.authorization
        IN (/\ AuthFirst(req.route) /\ h.words >= 2 /\ h.token.kind # "empty"
            /\ Len(trail[p]) >= 1) =>
            /\ trail[p][1].ev = "require_auth"
            /\ ~TokenVerifies(h.token) =>
                /\ ~trail[p][1].ok
                /\ pc[p] = "done" /\ response[p].status = 401
                /\ ~req.has_current_user
                /\ ~HandlerRan(p)
            /\ TokenVerifies(h.token) =>
                /\ trail[p][1].ok
                /\ req.has_current_user
                /\ req.current_user = [user_id |-> h.token.user_id,
                                       tenant_id |-> h.token.tenant_id,
                                       role |-> h.token.role]
                /\ response[p].status # 401
                /\ (pc[p] = "done" /\ Len(Stack(req.route)) = 1) =>
                       (HandlerRan(p) /\ response[p].status = 200)

\* A request with a good token went through require_auth to the handler.
C13_Witness ==
    \E p \in Procs :
        /\ pc[p] = "done"
        /\ request[p].route = "logout"
        /\ request[p].authorization = Bearer(StaffToken)
        /\ request[p].current_user.user_id = "u1"
        /\ HandlerRan(p)

\* An expired token has been turned away with no identity attached.
C13_WitnessExpired ==
    \E p \in Procs :
        /\ pc[p] = "done"
        /\ request[p].authorization = Bearer(ExpiredToken)
        /\ response[p].status = 401
        /\ ~request[p].has_current_user

\* C14 (role check).  require_role(r) passes iff the request has an
\* identity whose role is r or admin; without identity the request ends
\* 401, with another role 403; the handler runs only after it passed.
C14_RoleCheck ==
    \A p \in Procs :
        request[p].route \in Routes =>
            \A j \in DOMAIN Stack(request[p].route) :
                LET g == Stack(request[p].route)[j]
                    req == request[p]
                    t == trail[p]
                    may == /\ req.has_current_user
                           /\ req.current_user.role \in {g.role, "admin"}
                IN g.kind = "require_role" =>
                    /\ HandlerRan(p) => \E i \in DOMAIN t : t[i].ev = "require_role" /\ t[i].ok
                    /\ \A i \in DOMAIN t :
                         t[i].ev = "require_role" =>
                            /\ t[i].ok <=> may
                            /\ ~req.has_current_user =>
                                 (response[p].status = 401 /\ ~HandlerRan(p))
                            /\ (req.has_current_user /\ ~may) =>
                                 (response[p].status = 403 /\ ~HandlerRan(p))

\* An admin went through require_role("staff") to the handler.
C14_Witness ==
    \E p \in Procs :
        /\ pc[p] = "done"
        /\ request[p].route = "staff_only"
        /\ request[p].current_user.role = "admin"
        /\ HandlerRan(p)
        /\ response[p].status = 200

\* A request with no identity has been turned away by require_role.
C14_WitnessNoIdentity ==
    \E p \in Procs :
        /\ pc[p] = "done"
        /\ request[p].route = "role_only"
        /\ response[p].status = 401

\* ------------------------------------------------------------------ claims on the token service
\* The latest decode_jwt_token call was made on a token generate_jwt_token
\* returned.
OfIssued(v) == v.made /\ \E i \in issued : i.token = v.token

\* C15 (verification of an issued token).  Whenever a token issued for
\* (u, t, r) is verified before its exp, the call succeeds and returns
\* user_id = u, tenant_id = t, role = r, however often it was verified
\* before.
C15_VerifyIssued ==
    \A i \in issued :
        (verdict.made /\ verdict.token = i.token /\ verdict.at < i.token.exp) =>
            /\ verdict.result.ok
            /\ verdict.result.payload.user_id = i.for[1]
            /\ verdict.result.payload.tenant_id = i.for[2]
            /\ verdict.result.payload.role = i.for[3]

\* A token verified before has been verified again, with success.
C15_Witness ==
    /\ OfIssued(verdict)
    /\ verdict.ok_at >= 0
    /\ verdict.at > verdict.ok_at
    /\ verdict.result.ok
    /\ verdict.result.payload.role = "admin"

\* C16 (expiry is monotonic).  An issued token that verified at T fails
\* with "Token has expired" whenever it is verified at T + 24h or later,
\* and once it has failed as expired it fails as expired ever after.
C16_ExpiryMonotonic ==
    OfIssued(verdict) =>
        /\ (verdict.ok_at >= 0 /\ verdict.at >= verdict.ok_at + TokenTTL) =>
             (~verdict.result.ok /\ verdict.result.error = "Token has expired")
        /\ verdict.expired_before =>
             (~verdict.result.ok /\ verdict.result.error = "Token has expired")

\* A token is verified, with failure, 24h after it had verified.
C16_Witness ==
    /\ OfIssued(verdict)
    /\ verdict.ok_at >= 0
    /\ verdict.at = verdict.ok_at + TokenTTL
    /\ ~verdict.result.ok

\* C17 (exp = iat + 24h).  Every token generate_jwt_token returned has
\* exp = iat + 24h exactly.
C17_ExactTTL ==
    \A i \in issued : i.token.exp = i.token.iat + TokenTTL

\* The errors decode_jwt_token raised for a token.
VerifyFailures == { f \in failures : f.op = "verify" }

\* C18 as stated (distinct error kinds).  The error of an expired token and
\* the error of an invalid token are of different kinds.
C18_DistinctKinds ==
    \A a, b \in VerifyFailures : a.cause # b.cause => a.kind # b.kind

\* C18 as amended.  Both errors are of the one kind AuthenticationError and
\* differ by their message: "Token has expired" for a correctly signed
\* token past its exp, "Invalid token" for a bad signature or a string that
\* is no JWT.
C18_DistinctMessages ==
    \A a \in VerifyFailures :
        /\ a.kind = "AuthenticationError"
        /\ a.cause = "expired" => a.error = "Token has expired"
        /\ a.cause = "invalid" => a.error = "Invalid token"
        /\ \A b \in VerifyFailures : a.cause # b.cause => a.error # b.error

\* An expired token and an invalid one have both been turned down.
C18_Witness ==
    /\ \E a \in VerifyFailures : a.cause = "expired"
    /\ \E a \in VerifyFailures : a.cause = "invalid"

\* C19 (required fields).  No request has an identity without user_id,
\* tenant_id or role, nor one taken from a token without exp.
C19_CompleteIdentity ==
    \A p \in Procs :
        request[p].has_current_user =>
            /\ request[p].current_user.user_id # ""
            /\ request[p].current_user.tenant_id # ""
            /\ request[p].current_user.role # ""
            /\ request[p].authorization.token.exp # NoExp

\* C20 (the secret at startup).  A process that serves has its secret: no
\* call of the token service fails for want of it.
C20_SecretBeforeServing ==
    /\ app = "serving" => secret
    /\ \A f \in failures : f.cause # "no_secret"

\* C21 (no revocation).  A request with a token generate_jwt_token
\* returned, before its exp, passes require_auth whatever has become of
\* the user, and require_role decides on the role of the token: 200 when
\* that role is the required one or admin, 403 otherwise.
C21_NoRevocation ==
    (reply.op = "authorize" /\ reply.token \in IssuedTokens /\ now < reply.token.exp) =>
        /\ reply.user_id = reply.token.user_id
        /\ reply.status = IF reply.token.role \in {reply.required, "admin"}
                          THEN 200 ELSE 403

\* A token let through after its user was deactivated and given another role.
C21_Witness ==
    /\ reply.op = "authorize"
    /\ reply.token \in IssuedTokens
    /\ reply.status = 200
    /\ ~users[reply.token.user_id].is_active
    /\ users[reply.token.user_id].role # reply.token.role

\* C22 (unresolvable tenant).  A request to a route without token whose
\* X-Tenant-Slug names no active tenant is answered 401.
C22_InvalidTenant401 ==
    (reply.op \in {"register", "create_public_quote"} /\ reply.case = "no_tenant") =>
        reply.status = 401

\* C23 (authenticate is scoped by tenant).  A login succeeds only for a
\* slug of an active tenant, with the address of an active user of that
\* tenant and a password that verifies against the hash of that user; the
\* token carries that user and that tenant.  Where the tenant of the
\* slug has no user of the address, the login is answered 401, whatever
\* users of the address other tenants have.
C23_TenantScoped ==
    /\ (reply.op = "login" /\ reply.status = 200) =>
          /\ reply.user_id \in DOMAIN users
          /\ ActiveTenant(reply.tenant) = {users[reply.user_id].tenant_id}
          /\ users[reply.user_id].email = reply.email
          /\ users[reply.user_id].is_active
          /\ verify_password(reply.password, users[reply.user_id].password_hash).value
          /\ reply.token.user_id = reply.user_id
          /\ reply.token.tenant_id = users[reply.user_id].tenant_id
    /\ (reply.op = "login" /\ reply.case = "no_user") =>
          /\ reply.status = 401
          /\ reply.kind = "AuthenticationError"
          /\ reply.user_id = ""

\* The right password of a user of another tenant, turned down.
C23_Witness ==
    /\ reply.op = "login"
    /\ reply.status = 401
    /\ ActiveTenant(reply.tenant) # {}
    /\ \E v \in DOMAIN users :
        /\ users[v].email = reply.email
        /\ users[v].is_active
        /\ verify_password(reply.password, users[v].password_hash).value
        /\ users[v].tenant_id \notin ActiveTenant(reply.tenant)

\* C24 (user not found or wrong password).  The logins to an active
\* tenant that no user of the address, a wrong password, or a wrong
\* password for a deactivated user turns down are all answered the same.
C24_SameRefusal ==
    (reply.op = "login" /\ reply.case \in Refusals) =>
        /\ reply.status = 401
        /\ reply.message = firstRefusal

\* C25 (one generic 401).  Every 401 carries the message of the first.
C25_OneMessage == reply.status = 401 => reply.message = first401

\* C26 (store unreachable).  A login or a registration that finds the
\* durable store unreachable is answered 500.
C26_StoreDown500 ==
    (reply.op \in {"login", "register"} /\ reply.case = "store_down") =>
        reply.status = 500

\* No two users of one tenant share an address.
Unique ==
    \A u, v \in DOMAIN users :
        u # v => <<users[u].tenant_id, users[u].email>> # <<users[v].tenant_id, users[v].email>>

\* C27 (users are keyed by tenant and address).  No two users share
\* (tenant_id, email).  A create_user for a pair the table has raises and
\* leaves the table as it was, with the duplicate error when what it was
\* given is valid; for a pair the table lacks, whatever the other tenants
\* hold, it adds one row of that pair and touches no other.
C27_KeyedByTenantAndEmail ==
    /\ []Unique
    /\ [][reply'.op \in {"create_user", "UserManager.create_user"} =>
            IF UsersByEmail(reply'.email, reply'.tenant) # {}
            THEN /\ reply'.kind \in {"ValueError", "ValidationError"}
                 /\ validate_password(reply'.password) =>
                        reply'.message = "User already exists"
                 /\ users' = users
            ELSE /\ reply'.message # "User already exists"
                 /\ (validate_email(reply'.email) /\ validate_password(reply'.password)) =>
                        /\ reply'.kind = ""
                        /\ DOMAIN users' = DOMAIN users \cup {reply'.user_id}
                        /\ reply'.user_id \notin DOMAIN users
                        /\ users'[reply'.user_id].tenant_id = reply'.tenant
                        /\ users'[reply'.user_id].email = reply'.email
                        /\ \A u \in DOMAIN users : users'[u] = users[u]]_vars

\* A user created with the address of a user of another tenant.
C27_Witness ==
    /\ reply.op \in {"create_user", "UserManager.create_user"}
    /\ reply.kind = ""
    /\ reply.user_id \in DOMAIN users
    /\ \E v \in DOMAIN users :
        /\ v # reply.user_id
        /\ users[v].email = users[reply.user_id].email
        /\ users[v].tenant_id # users[reply.user_id].tenant_id

\* C28 (tenant_id is fixed).  Every user is of the tenant it was created in.
C28_TenantFixed ==
    \A u \in DOMAIN users : users[u].tenant_id = users[u].created_in

\* An update_user whose dictionary names tenant_id has written the row.
C28_Witness ==
    /\ reply.op = "update_user"
    /\ reply.kind = ""
    /\ "tenant_id" \in reply.named
    /\ users[reply.user_id].tenant_id = "t1"
    /\ users[reply.user_id].role = "admin"

\* C29 (soft delete).  No step removes a user.  delete_user leaves the
\* user it finds deactivated; a login succeeds only for a user that was
\* active before it; and only an update_user naming is_active makes a
\* deactivated user active.
C29_SoftDelete ==
    [][/\ DOMAIN users \subseteq DOMAIN users'
       /\ (reply'.op = "delete_user" /\ reply'.message = "True") =>
              /\ reply'.user_id \in DOMAIN users'
              /\ ~users'[reply'.user_id].is_active
       /\ (reply'.op = "login" /\ reply'.status = 200) =>
              users[reply'.user_id].is_active
       /\ \A u \in DOMAIN users :
              (~users[u].is_active /\ users'[u].is_active) =>
                  /\ reply'.op = "update_user"
                  /\ reply'.user_id = u
                  /\ "is_active" \in reply'.named]_vars

\* A deactivated user turned down with its right password.
C29_Witness ==
    /\ reply.op = "login"
    /\ reply.case = "disabled"
    /\ reply.status = 401
    /\ \E u \in DOMAIN users : ~users[u].is_active /\ users[u].email = reply.email

\* C30 (verification never raises).  A login for a user whose stored
\* password is no hash ends as the AuthenticationError of invalid
\* credentials.
C30_MalformedHashRefused ==
    (reply.op = "login" /\ reply.case = "malformed_hash") =>
        /\ reply.kind = "AuthenticationError"
        /\ reply.message = "Invalid credentials"

\* ------------------------------------------------------------------ create_user, step by step
\* Every worker runs create_user in its own transaction: the SELECT, then
\* the INSERT and the commit.  The definition of table users is not part
\* of the sources: it has a unique index on (tenant_id, email), or it has
\* none.
InitCreate ==
    /\ Serving
    /\ first401 = "-"
    /\ firstRefusal = "-"
    /\ unique_email \in BOOLEAN
    /\ quotes = <<>>

\* The INSERT meets a committed row with its (tenant_id, email) and an
\* index that forbids it.
UniqueViolation(email, tenant_id) ==
    unique_email /\ UsersByEmail(email, tenant_id) # {}

CreateEmails == {"a@x.io", "b@x.io"}
CreateTenants == {"t1", "t2"}

\* SELECT id FROM users WHERE email = %s AND tenant_id = %s; a row found
\* ends the call with "User already exists".
CreateSelect(p) ==
    /\ creating[p].pc \in {"idle", "done"}
    /\ \E email \in CreateEmails, tenant_id \in CreateTenants :
         creating' = [creating EXCEPT ![p] =
            IF UsersByEmail(email, tenant_id) # {}
            THEN [NoCreate EXCEPT !.pc = "done", !.email = email, !.tenant_id = tenant_id,
                                  !.error = "User already exists"]
            ELSE [NoCreate EXCEPT !.pc = "selected", !.email = email,
                                  !.tenant_id = tenant_id]]
    /\ UNCHANGED <<now, redis, rate_limits, redisUp, dbUp, pc, request, gi, frame,
                   response, trail, calls, denied_at>>
    /\ UNCHANGED <<authvars, credvars, admitted, quotes, qcall, unique_email, origin>>

\* INSERT INTO users ... RETURNING id, and the commit.
CreateInsert(p) ==
    /\ creating[p].pc = "selected"
    /\ LET c == creating[p] IN
        IF UniqueViolation(c.email, c.tenant_id)
        THEN /\ creating' = [creating EXCEPT ![p].pc = "done",
                                              ![p].error = "IntegrityError"]
             /\ UNCHANGED users
        ELSE /\ creating' = [creating EXCEPT ![p].pc = "done",
                                              ![p].user_id = NewId(users)]
             /\ users' = Insert(users, Row(c.tenant_id, c.email,
                                           hash_password("Passw0rd"), "customer"))
    /\ UNCHANGED <<now, redis, rate_limits, redisUp, dbUp, pc, request, gi, frame,
                   response, trail, calls, denied_at>>
    /\ UNCHANGED <<authvars, reply, first401, firstRefusal, admitted, quotes, qcall,
                   unique_email, origin>>

NextCreate == \E p \in Procs : CreateSelect(p) \/ CreateInsert(p)
SpecCreate == InitCreate /\ [][NextCreate]_vars

\* ------------------------------------------------------------------ the quote workflow
\* QuoteStatus
Statuses ==
    {"draft", "pending", "under_review", "approved", "rejected", "expired", "converted"}

\* valid_transitions
valid_transitions ==
    [ draft        |-> {"pending", "rejected"},
      pending      |-> {"under_review", "approved", "rejected"},
      under_review |-> {"approved", "rejected", "pending"},
      approved     |-> {"converted", "expired"},
      rejected     |-> {"pending"},
      expired      |-> {"pending"},
      converted    |-> {} ]

\* Every status is open from every other.
_is_valid_status_transition_Any(current_status, new_status) ==
    new_status # current_status

\* QuoteWorkflow._is_valid_status_transition
_is_valid_status_transition(current_status, new_status) ==
    /\ current_status \in DOMAIN valid_transitions
    /\ new_status \in valid_transitions[current_status]

\* A row of quotes: overdue stands for expires_at < CURRENT_TIMESTAMP.
Quote(tenant_id, status, overdue) ==
    [tenant_id |-> tenant_id, status |-> status, overdue |-> overdue]

\* The statuses create_quote stores: draft is replaced in every branch.
CreatedStatuses == {"approved", "under_review", "pending"}

\* Table quotes after create_quote: a quote of tenant t1, and one of
\* tenant t2 that is pending and past its date.
SeedQuotes ==
    { [q \in {"q1", "q2"} |->
          IF q = "q1" THEN Quote("t1", status, overdue) ELSE Quote("t2", "pending", TRUE)] :
        status \in CreatedStatuses, overdue \in BOOLEAN }

InitQuotes ==
    /\ Serving
    /\ first401 = "-"
    /\ firstRefusal = "-"
    /\ unique_email = FALSE
    /\ quotes \in SeedQuotes

\* UPDATE quotes SET status = %s WHERE id = %s
SetStatus(table, quote_id, status) ==
    [q \in DOMAIN table |->
        IF q = quote_id THEN Quote(table[q].tenant_id, status, table[q].overdue)
        ELSE table[q]]

QuoteIds == {"q1", "q9"}
NewStatuses == Statuses \cup {"archived"}

\* update_quote_status up to the SELECT: the status asked for is checked
\* and the quote is read.
UpdateStatusRead(p) ==
    /\ qcall[p].pc \in {"idle", "done"}
    /\ \E quote_id \in QuoteIds, new_status \in NewStatuses :
         LET call == [NoQCall EXCEPT !.quote_id = quote_id, !.new_status = new_status] IN
         qcall' = [qcall EXCEPT ![p] =
            IF new_status \notin Statuses
            THEN [call EXCEPT !.pc = "done", !.error = "Invalid status"]
            ELSE IF quote_id \notin DOMAIN quotes
            THEN [call EXCEPT !.pc = "done", !.error = "Quote not found"]
            ELSE [call EXCEPT !.pc = "read",
                              !.current_status = quotes[quote_id].status]]
    /\ UNCHANGED <<now, redis, rate_limits, redisUp, dbUp, pc, request, gi, frame,
                   response, trail, calls, denied_at>>
    /\ UNCHANGED <<authvars, credvars, admitted, quotes, creating, unique_email, origin>>

\* update_quote_status from the transition check on: the ValidationError,
\* or the UPDATE and the commit.
UpdateStatusWrite(p) ==
    /\ qcall[p].pc = "read"
    /\ LET c == qcall[p] IN
        IF ~_is_valid_status_transition(c.current_status, c.new_status)
        THEN /\ qcall' = [qcall EXCEPT ![p].pc = "done",
                                        ![p].error = "Invalid status transition"]
             /\ UNCHANGED quotes
        ELSE /\ qcall' = [qcall EXCEPT ![p].pc = "done"]
             /\ quotes' = SetStatus(quotes, c.quote_id, c.new_status)
    /\ UNCHANGED <<now, redis, rate_limits, redisUp, dbUp, pc, request, gi, frame,
                   response, trail, calls, denied_at>>
    /\ UNCHANGED <<authvars, credvars, admitted, creating, unique_email, origin>>

\* expire_old_quotes(tenant_id), called by a worker that is in no other call
expire_old_quotes(p) ==
    /\ qcall[p].pc \in {"idle", "done"}
    /\ \E tenant_id \in {"t1", "t2"} :
         quotes' = [q \in DOMAIN quotes |->
            IF /\ quotes[q].tenant_id = tenant_id
               /\ quotes[q].status \in {"pending", "under_review"}
               /\ quotes[q].overdue
            THEN Quote(quotes[q].tenant_id, "expired", quotes[q].overdue)
            ELSE quotes[q]]
    /\ qcall' = [qcall EXCEPT ![p] = NoQCall]
    /\ UNCHANGED <<now, redis, rate_limits, redisUp, dbUp, pc, request, gi, frame,
                   response, trail, calls, denied_at>>
    /\ UNCHANGED <<authvars, credvars, admitted, creating, unique_email, origin>>

\* The calls of one worker, one after the other.
NextQuotes ==
    \/ UpdateStatusRead(1)
    \/ UpdateStatusWrite(1)
    \/ expire_old_quotes(1)
SpecQuotes == InitQuotes /\ [][NextQuotes]_vars

\* update_quote_status called by all the workers at once.
NextQuotesConcurrent ==
    \E p \in Procs : UpdateStatusRead(p) \/ UpdateStatusWrite(p)
SpecQuotesConcurrent == InitQuotes /\ [][NextQuotesConcurrent]_vars

\* C31 (tenant axis by path).  A tenant check of a request that passed
\* require_auth is made under tenant:<tenant_id of its token>, whatever its
\* slug header; a tenant check of a request with no verified token is made
\* under tenant:slug:<its X-Tenant-Slug as sent>, which is the identifier of
\* no authenticated request; a request with neither is never checked on
\* the tenant axis.
C31_TenantAxisByPath ==
    LET req == request[1]
        f == frame[1]
        tenantChecks == {i \in 1..Len(trail[1]) : trail[1][i].axis = "tenant"}
    IN
    /\ (f.axis = "tenant" /\ req.has_current_user) =>
           f.identifier = "tenant:" \o req.authorization.token.tenant_id
    /\ (f.axis = "tenant" /\ ~req.has_current_user) =>
           /\ req.tenant_slug # ""
           /\ f.identifier = "tenant:slug:" \o req.tenant_slug
           /\ f.identifier \notin {"tenant:" \o t : t \in {"t1", "t2", "t3"}}
    /\ (~req.has_current_user /\ req.tenant_slug = "") =>
           f.axis # "tenant" /\ tenantChecks = {}

\* A request to register that names the tenant of the tokens by its id
\* was counted under the slug, beside the counter of the tenant itself.
C31_Witness ==
    /\ pc[1] = "checked"
    /\ request[1].route = "register"
    /\ request[1].tenant_slug = "t1"
    /\ frame[1].identifier = "tenant:slug:t1"
    /\ frame[1].allowed
    /\ <<"tenant:slug:t1", "auth_register", 0>> \in DOMAIN redis
    /\ <<"tenant:t1", "quote_create", 0>> \in DOMAIN redis

\* C32 (one user per tenant and email, under concurrency).  No two rows of
\* users have the same (tenant_id, email), and of the create_user calls of
\* two workers for one (tenant_id, email) at most one returned a user.
C32_UniqueUnderConcurrency ==
    /\ \A u, v \in DOMAIN users :
          (users[u].tenant_id = users[v].tenant_id /\ users[u].email = users[v].email)
              => u = v
    /\ \A p, q \in Procs :
          (/\ p # q
           /\ creating[p].pc = "done" /\ creating[q].pc = "done"
           /\ creating[p].email = creating[q].email
           /\ creating[p].tenant_id = creating[q].tenant_id)
              => (creating[p].user_id = "" \/ creating[q].user_id = "")

\* The calls admitted for a pair that began at the instants from..to;
\* inside: those counted in the bucket they began in.
RECURSIVE AdmittedIn(_, _, _, _)
AdmittedIn(pair, from, to, inside) ==
    IF from > to THEN 0
    ELSE LET At(e) == IF e \in DOMAIN admitted.at THEN admitted.at[e] ELSE 0 IN
         At(<<pair[1], pair[2], from, TRUE>>)
         + (IF inside THEN 0 ELSE At(<<pair[1], pair[2], from, FALSE>>))
         + AdmittedIn(pair, from + 1, to, inside)

AdmittedPairs == { <<e[1], e[2]>> : e \in DOMAIN admitted.at }

C34_LimitAcrossStores ==
    \A pair \in AdmittedPairs : AdmittedIn(pair, 0, MaxTime, FALSE) <= CallLimit

\* C35 (what a rejected request has used up).  A request that the tenant
\* axis denies has added one to the counter of its IP and nothing to the
\* counter of its tenant; a request that the IP axis denies is not checked
\* on the tenant axis and leaves every counter as it found it.
C35_QuotaOfRejected ==
    LET req == request[1]
        f == frame[1]
        cfg == get_rate_limit_config("quote_create")
        reg == get_rate_limit_config("auth_register")
        ip == "ip:" \o _get_client_ip(req)
        IpKeys == { _get_rate_limit_key(ip, "quote_create", cfg.window),
                    _get_rate_limit_key(ip, "auth_register", reg.window) }
        Keys == DOMAIN redis \cup DOMAIN origin[1].redis
        ipDenied == \E i \in 1..Len(trail[1]) :
                        /\ trail[1][i].ev = "check"
                        /\ trail[1][i].axis = "ip"
                        /\ ~trail[1][i].ok
    IN
    /\ (pc[1] = "checked" /\ f.axis = "tenant" /\ ~f.allowed) =>
           /\ RedisCount(redis, _get_rate_limit_key(ip, f.endpoint, f.window))
                = RedisCount(origin[1].redis,
                             _get_rate_limit_key(ip, f.endpoint, f.window)) + 1
           /\ \A k \in Keys \ IpKeys :
                 RedisCount(redis, k) = RedisCount(origin[1].redis, k)
    /\ ipDenied =>
           /\ \A i \in 1..Len(trail[1]) : trail[1][i].axis # "tenant"
           /\ f.axis # "tenant"
           /\ \A k \in Keys : RedisCount(redis, k) = RedisCount(origin[1].redis, k)

\* A request denied on the tenant axis, its IP counted once more.
C35_Witness ==
    /\ pc[1] = "checked"
    /\ frame[1].axis = "tenant"
    /\ ~frame[1].allowed
    /\ RedisCount(redis, <<"ip:10.0.0.1", "quote_create", 0>>)
         = RedisCount(origin[1].redis, <<"ip:10.0.0.1", "quote_create", 0>>) + 1

\* C36 (a counter for every key).  No step of a check_rate_limit call
\* changes the counter or the rows that a call for another identifier or
\* another endpoint reads, and what a call returns is decided by the
\* counter, or the rows, of its own identifier and endpoint alone.
C36_PerKey ==
    [][/\ \A pair \in CallPairs \ {Pair(frame[1])} :
            LET key == _get_rate_limit_key(pair[1], pair[2], DefaultWindow) IN
            /\ RedisCount(redis', key) = RedisCount(redis, key)
            /\ CountRows(rate_limits', pair[1], pair[2], now - WindowTicks(DefaultWindow))
                 = CountRows(rate_limits, pair[1], pair[2], now - WindowTicks(DefaultWindow))
       /\ (pc[1] # "checked" /\ pc'[1] = "checked") =>
            LET f == frame'[1]
                own == IF f.path = "redis"
                       THEN RedisCount(f.redis_before,
                                _get_rate_limit_key(f.identifier, f.endpoint, f.window))
                       ELSE CountRows(f.rows_before, f.identifier, f.endpoint,
                                      now - WindowTicks(f.window))
            IN
            /\ f.allowed = (own < f.limit)
            /\ f.info.remaining = IF own < f.limit THEN f.limit - (own + 1) ELSE 0]_vars

\* One client was denied, and then another allowed with its whole limit
\* but one left.
C36_Witness ==
    /\ pc[1] = "checked"
    /\ frame[1].identifier = "ip:10.0.0.2"
    /\ frame[1].allowed
    /\ frame[1].info.remaining = CallLimit - 1
    /\ <<"ip:10.0.0.1", "default">> \in DOMAIN denied_at

\* C37 (user management stays in the tenant).  get_user, update_user,
\* delete_user and reset_password called with the id of a user and the id
\* of another tenant than the user's return no user and change no row:
\* get_user returns None, delete_user False, reset_password and update_user
\* raise "User not found" when what they were given is valid.
C37_TenantScoped ==
    [][(/\ reply'.op \in {"get_user", "update_user", "delete_user", "reset_password"}
        /\ reply'.user_id \in DOMAIN users
        /\ users[reply'.user_id].tenant_id # reply'.tenant)
       => /\ users' = users
          /\ reply'.op = "get_user" => reply'.message = "None"
          /\ reply'.op = "delete_user" => reply'.message = "False"
          /\ reply'.op = "reset_password" =>
                 /\ reply'.kind = "ValidationError"
                 /\ validate_password(reply'.password) => reply'.message = "User not found"
          /\ reply'.op = "update_user" =>
                 /\ reply'.kind = "ValidationError"
                 /\ reply'.named \cap allowed_fields # {}
                        => reply'.message = "User not found"]_vars

\* update_user for the user of tenant t2, called with tenant t1 and a
\* field it may write, found no user.
C37_Witness ==
    /\ reply.op = "update_user"
    /\ reply.tenant = "t1"
    /\ reply.user_id \in DOMAIN users
    /\ users[reply.user_id].tenant_id = "t2"
    /\ reply.message = "User not found"
    /\ "is_active" \in reply.named

\* C38 (status changes of update_quote_status; converted is final).  A
\* call of update_quote_status that returns has moved its quote, and no
\* other, from the status stored before to the status asked for, along an
\* edge of valid_transitions; a call that raises has changed nothing and
\* raised a ValidationError; and a quote that is converted stays
\* converted, whatever update_quote_status and expire_old_quotes do.
C38_TableFollowed ==
    [][/\ (qcall[1].pc = "read" /\ qcall'[1].pc = "done") =>
            LET c == qcall'[1] IN
            IF c.error = ""
            THEN /\ c.new_status \in valid_transitions[quotes[c.quote_id].status]
                 /\ quotes'[c.quote_id].status = c.new_status
                 /\ \A q \in DOMAIN quotes \ {c.quote_id} : quotes'[q] = quotes[q]
            ELSE /\ quotes' = quotes
                 /\ c.error = "Invalid status transition"
       /\ (qcall'[1].pc = "done" /\ qcall'[1].error # "") => quotes' = quotes
       /\ \A q \in DOMAIN quotes :
            quotes[q].status = "converted" => quotes'[q].status = "converted"]_vars

\* A converted quote that a call tried to move on.
C38_Witness ==
    /\ quotes["q1"].status = "converted"
    /\ qcall[1].pc = "done"
    /\ qcall[1].quote_id = "q1"
    /\ qcall[1].current_status = "converted"
    /\ qcall[1].error = "Invalid status transition"

\* C39 (every change is in the table).  Whenever the stored status of a
\* quote changes, by update_quote_status or by expire_old_quotes, the new
\* status is one valid_transitions allows after the old one.
C39_EveryChangeInTable ==
    [][\A q \in DOMAIN quotes :
         quotes'[q].status # quotes[q].status =>
             quotes'[q].status \in valid_transitions[quotes[q].status]]_vars

\* C40 (valid transitions under concurrency).  With update_quote_status
\* called by several workers at once, whenever the stored status of a
\* quote changes, the new status is one valid_transitions allows after the
\* status stored just before.
C40_ValidUnderConcurrency ==
    [][\A q \in DOMAIN quotes :
         quotes'[q].status # quotes[q].status =>
             _is_valid_status_transition(quotes[q].status, quotes'[q].status)]_vars

====
